---- MODULE Spec2Model ----
(***************************************************************************)
(* The protocol session of mamba-mcp-client (MCPTestClient) and its        *)
(* protocol log (MCPLogger).                                                *)
(*                                                                         *)
(* One MCPTestClient, its MCPLogger, the connect() scopes opened on it and *)
(* the caller tasks that invoke capability operations on it.  The client   *)
(* runs on one asyncio event loop: the code between two awaits is one      *)
(* atomic step, so every action below is one such stretch of a coroutine.  *)
(***************************************************************************)
EXTENDS Integers, Sequences, FiniteSets, TLC

\* ------------------------------------------------------------------ bounds
\* Calls of the session's interface (connect(), the capability operations,
\* clear_logs()) made in one behaviour.  Each call is made by a task of its
\* own, so any number of them may be in flight at the same time.
MaxEvents == 2

Calls == 1..MaxEvents

\* The connect() scopes of the session: those opened in the behaviour are
\* numbered from 1, and 0 is the one a session that was used before made
\* earlier.
ConnIds == 0..MaxEvents

\* ---------------------------------------------------------- optional values
\* Python's None and a present value, kept apart from every payload.
None == <<>>
Some(x) == <<x>>
Get(o) == o[1]

\* ------------------------------------------------------------ configuration
TransportTypes == {"stdio", "sse", "http", "uv_installed", "uv_local"}

\* The sub-config field _create_transport reads for a transport type.
SubConfigOf(tt) ==
    CASE tt = "stdio" -> "stdio"
      [] tt = "uv_installed" -> "uv_installed"
      [] tt = "uv_local" -> "uv_local"
      [] tt \in {"sse", "http"} -> "http"

\* A URL: what precedes the query string, and the query parameters in order.
Url(base, query) == [base |-> base, query |-> query]
SseUrl == Url("http://localhost:8000/sse", <<>>)

\* HttpConfig's defaults: no headers, a timeout of 30 seconds.
NoHeaders == <<>>
DefaultTimeout == 30

\* A ClientConfig: the transport type, the sub-config fields that are
\* populated, LogConfig.enabled and LogConfig.log_requests, the args of the
\* populated process sub-config and the url, headers and timeout of the http
\* sub-config.  ClientConfig has no other field that _create_transport could
\* read.
ForTransport(tt) ==
    [transport_type |-> tt, populated |-> {SubConfigOf(tt)}, enabled |-> TRUE,
     log_requests |-> TRUE,
     args |-> <<>>, url |-> IF tt \in {"sse", "http"} THEN SseUrl ELSE Url("", <<>>),
     headers |-> NoHeaders, timeout |-> DefaultTimeout]

\* ClientConfig.for_stdio, for_uv_installed, for_uv_local (args) and for_sse,
\* for_http (url, headers, timeout), called with the keyword argument
\* extra_args: the constructors hand their **kwargs to ClientConfig(), which
\* has no extra_args field and drops unknown keywords (extra="ignore").
For(tt, args, url, headers, timeout, extra_args) ==
    IF tt \in {"sse", "http"}
    THEN [ForTransport(tt) EXCEPT !.url = url, !.headers = headers,
                                  !.timeout = timeout]
    ELSE [ForTransport(tt) EXCEPT !.args = args]

\* ClientConfig() with nothing but defaults: stdio selected, no stdio block.
BareConfig ==
    [transport_type |-> "stdio", populated |-> {}, enabled |-> TRUE,
     log_requests |-> TRUE, args |-> <<>>, url |-> Url("", <<>>),
     headers |-> NoHeaders, timeout |-> DefaultTimeout]

\* The configurations a session is constructed with.
Configs ==
    {ForTransport(tt) : tt \in TransportTypes}
        \cup {BareConfig}
        \cup {[ForTransport("stdio") EXCEPT !.log_requests = FALSE]}

\* The configurations the session is checked with.
SessionConfigs ==
    {ForTransport("stdio"), BareConfig,
     [ForTransport("stdio") EXCEPT !.log_requests = FALSE]}

\* The optional methods the installed protocol library's Client class has:
\* what hasattr(client, "list_roots") and hasattr(client, "create_message")
\* answer for every Client object of the run.
Libraries == [list_roots : BOOLEAN, create_message : BOOLEAN]

\* ------------------------------------------------------------------- state
VARIABLES
    config,       \* self.config
    library,      \* the optional methods of the library's Client class
    connected,    \* self._connected
    client,       \* self._client: None or Some(connection id)
    server_info,  \* self._server_info: None or Some(ServerInfo)
    entries,      \* self.logger.entries
    conns,        \* the connect() scopes, by connection id
    nconn,        \* connect() calls made so far
    calls,        \* the capability operation calls, in the order they were made
    nclears,      \* clear_logs() calls made so far
    now,          \* the wall clock datetime.now() reads
    handle,       \* the entry a direct caller of log_request keeps: None or Some(entry)
    arg,          \* the arguments of the last function called directly
    out,          \* what that call returned or raised
    held,         \* the list a caller of get_entries keeps: None or Some(list)
    loggers,      \* the logging module's loggers, by name
    sessions,     \* the MCPTestClient objects of the process, by number
    current_tool, \* MCPTestApp._current_tool: None or Some(tool name)
    tool_dialog,  \* MCPTestApp._tool_dialog: None or Some(dialog id)
    mounted,      \* the ToolCallDialog widgets that are mounted
    loading,      \* the mounted dialogs whose Call button set_loading disabled
    messages,     \* the ToolCallRequested messages posted and not yet handled
    tool_workers, \* the execute_tool_call workers
    tree,         \* the groups under the root of the CapabilityTree
    load_workers, \* the load_capabilities workers
    op_workers,   \* the action_ping and read_selected_resource workers
    app           \* the MCPTestApp: "new", "mounted", "exiting" (exit() was called or a
                  \* handler raised) or "exited" (its workers are cancelled)

vars == <<config, library, connected, client, server_info, entries, conns,
          nconn, calls, nclears, now, handle, arg, out, held, loggers, sessions,
          current_tool, tool_dialog, mounted, loading, messages, tool_workers,
          tree, load_workers, op_workers, app>>

\* What lies outside one session and its logger: the list kept from
\* get_entries, the sessions of the process with the logging module's
\* loggers, and the widgets of the TUI.
peers == <<loggers, sessions>>
widgets == <<current_tool, tool_dialog, mounted, loading, messages, tool_workers,
             tree, load_workers, op_workers, app>>
others == <<held, peers, widgets>>

\* --------------------------------------------------------------- exceptions
Exc(type, msg) == [type |-> type, msg |-> msg]

\* _ensure_connected's RuntimeError.
NotConnectedError ==
    Exc("RuntimeError", "Client is not connected. Use 'async with client.connect():'")

\* _create_transport's ValueError for a missing sub-config.
ConfigurationError == Exc("ValueError", "configuration required for transport")

\* create_message's NotImplementedError.
SamplingUnsupported ==
    Exc("NotImplementedError", "Sampling not directly supported by this client")

\* json.dumps on a value it cannot encode.
JsonTypeError == Exc("TypeError", "Object is not JSON serializable")

\* AnyUrl(uri) on a string that is no URL.
UrlValidationError == Exc("ValidationError", "Input should be a valid URL")

\* result.serverInfo.name on a result without serverInfo.
InitParseError == Exc("AttributeError", "'NoneType' object has no attribute 'name'")

\* The messages str(e) of a failure of the protocol library (the connection
\* could not be opened, the server answered with an error, the connection was
\* lost); a failure may carry an empty message.
Msgs == {"", "boom"}
LibraryFailures == {Exc("McpError", m) : m \in Msgs}

\* asyncio.CancelledError: a BaseException, not an Exception.
CancelledError == Exc("CancelledError", "")
IsException(e) == e.type # "CancelledError"

\* ------------------------------------------------------------------ values
\* A Python value handed to the logger: its kind decides how log_response
\* stores it (a pydantic model offers model_dump, an object has __dict__, a
\* mapping is a dict), body names its content, json tells whether json.dumps
\* accepts it.
Value(kind, body, json) == [kind |-> kind, body |-> body, json |-> json]
EmptyMapping == Value("mapping", "{}", TRUE)

\* ------------------------------------------------------------------ logger
\* MCPLogEntry.
MCPLogEntry(timestamp, direction, method, data, duration_ms, error) ==
    [timestamp |-> timestamp, direction |-> direction, method |-> method,
     data |-> data, duration_ms |-> duration_ms, error |-> error]

\* params or {}
ParamsOrEmpty(params) == IF params = None THEN EmptyMapping ELSE Get(params)

\* The data log_request and log_notification store: the params themselves.
Stored(form, v) == [form |-> form, body |-> v.body, json |-> v.json]

\* log_request writing its trace line without appending the entry.
LogRequest_TraceOnly(log, clock, log_requests, method, params) ==
    LET entry == MCPLogEntry(clock, "request", method,
                             Stored("same", ParamsOrEmpty(params)), None, None)
    IN  [entries |-> log,
         entry |-> entry,
         raised |-> IF log_requests /\ ~ParamsOrEmpty(params).json
                    THEN Some(JsonTypeError) ELSE None]

\* log_request: the entry it appends, and the failure of its trace line,
\* whose f-string encodes the params with json.dumps whatever the log level.
LogRequest(log, clock, log_requests, method, params) ==
    LET entry == MCPLogEntry(clock, "request", method,
                             Stored("same", ParamsOrEmpty(params)), None, None)
    IN  [entries |-> Append(log, entry),
         entry |-> entry,
         raised |-> IF log_requests /\ ~ParamsOrEmpty(params).json
                    THEN Some(JsonTypeError) ELSE None]

\* log_response's conversion of the result to the entry's data.
Normalize(result) ==
    CASE result.kind = "model" -> Stored("model_dump", result)
      [] result.kind = "object" -> Stored("str", [result EXCEPT !.json = TRUE])
      [] result.kind = "mapping" -> Stored("same", result)
      [] OTHER -> Stored("wrap", result)

\* log_response storing its entry at the index it read before, over the
\* entry another call appended there in between.
LogResponse_Overwrite(log, clock, method, result, request_entry, error) ==
    LET duration_ms == IF request_entry # None
                       THEN Some(clock - Get(request_entry).timestamp)
                       ELSE None
        entry == MCPLogEntry(clock, "response", method, Normalize(result),
                             duration_ms, error)
    IN  IF log = <<>> THEN <<entry>> ELSE [log EXCEPT ![Len(log)] = entry]

\* log_response putting its entry at the front of the log.
LogResponse_Prepend(log, clock, method, result, request_entry, error) ==
    LET duration_ms == IF request_entry # None
                       THEN Some(clock - Get(request_entry).timestamp)
                       ELSE None
    IN  <<MCPLogEntry(clock, "response", method, Normalize(result),
                      duration_ms, error)>> \o log

\* log_response: the log with the response entry appended.
LogResponse(log, clock, method, result, request_entry, error) ==
    LET duration_ms == IF request_entry # None
                       THEN Some(clock - Get(request_entry).timestamp)
                       ELSE None
    IN  Append(log, MCPLogEntry(clock, "response", method, Normalize(result),
                                duration_ms, error))

\* log_notification: the log with the notification entry appended.
LogNotification(log, clock, method, params) ==
    Append(log, MCPLogEntry(clock, "notification", method,
                            Stored("same", ParamsOrEmpty(params)), None, None))

\* Python's seq[-limit:].
LastSlice(seq, limit) ==
    LET n == Len(seq)
        start == IF -limit < 0
                 THEN (IF n - limit < 0 THEN 0 ELSE n - limit)
                 ELSE (IF -limit > n THEN n ELSE -limit)
    IN  SubSeq(seq, start + 1, n)

\* get_entries(direction, method, limit): each filter and the limit apply
\* when the argument is truthy ("if direction:", "if method:", "if limit:").
GetEntries(log, direction, method, limit) ==
    LET HasDirection(e) == e.direction = Get(direction)
        HasMethod(e) == e.method = Get(method)
        by_direction == IF direction # None THEN SelectSeq(log, HasDirection)
                        ELSE log
        by_method == IF method # None /\ Get(method) # ""
                     THEN SelectSeq(by_direction, HasMethod)
                     ELSE by_direction
    IN  IF limit # None /\ Get(limit) # 0
        THEN LastSlice(by_method, Get(limit))
        ELSE by_method

\* MCPLogEntry.to_dict: the timestamp becomes its ISO string, the direction
\* its value, the other fields are taken as they are.
ToDict(e) ==
    [timestamp |-> [iso |-> e.timestamp], direction |-> e.direction,
     method |-> e.method, data |-> e.data, duration_ms |-> e.duration_ms,
     error |-> e.error]

\* json.dumps of a list of dicts without a default hook: the JSON array, or
\* the TypeError for a value it cannot encode.
JsonDumps(dicts) ==
    IF \E i \in 1..Len(dicts) : ~dicts[i].data.json
    THEN [raised |-> Some(JsonTypeError), text |-> None]
    ELSE [raised |-> None,
          text |-> Some([array |-> [i \in 1..Len(dicts) |->
                           [dicts[i] EXCEPT !.data = [body |-> dicts[i].data.body]]]])]

\* json.loads of an exported text: the list of objects.
JsonLoads(text) == text.array

\* export_json.
ExportJson(log) == JsonDumps([i \in 1..Len(log) |-> ToDict(log[i])])

\* ------------------------------------------------------------ server info
\* The initialization results a handshake may leave on the Client object:
\* the server's name (None: the result carries no serverInfo) and whether
\* its capabilities declare tools.
InitResults ==
    {[serverInfo |-> Some("alpha"), tools |-> Some("listChanged")],
     [serverInfo |-> Some("beta"), tools |-> None],
     [serverInfo |-> None, tools |-> None]}

\* ServerCapabilities.from_init_result.
ServerCapabilities(result) == [tools |-> result.tools # None]

\* ServerInfo.from_init_result: the ServerInfo, or the failure of reading
\* result.serverInfo.name.
ServerInfo(result) ==
    IF result.serverInfo = None
    THEN [raised |-> Some(InitParseError), info |-> None]
    ELSE [raised |-> None,
          info |-> Some([name |-> Get(result.serverInfo),
                         capabilities |-> ServerCapabilities(result)])]

\* The initialization result as the value log_response is given: a pydantic
\* model.
InitValue(result) ==
    Value("model", IF result.serverInfo = None THEN "init" ELSE Get(result.serverInfo), TRUE)

\* ---------------------------------------------------------------- session
\* The transport object: its class, its process arguments (None: the
\* keyword is passed as None) and, for SSE and HTTP, the URL string handed to
\* Client, which infers the transport from it.  Neither a process transport
\* nor a URL string is given headers or a timeout.
Transport(kind, args, url) ==
    [kind |-> kind, args |-> args, url |-> url, headers |-> None, timeout |-> None]

\* "cfg.args or None".
OrNone(args) == IF args = <<>> THEN None ELSE Some(args)

\* _create_transport handing SSE and HTTP a URL with an empty query string
\* appended.
CreateTransport_EmptyQuery(cfg) ==
    IF SubConfigOf(cfg.transport_type) \notin cfg.populated
    THEN [raised |-> Some(ConfigurationError), transport |-> None]
    ELSE [raised |-> None,
          transport |-> Some(
            CASE cfg.transport_type = "stdio" ->
                    Transport("StdioTransport", Some(cfg.args), None)
              [] cfg.transport_type = "uv_installed" ->
                    Transport("UvStdioTransport", OrNone(cfg.args), None)
              [] cfg.transport_type = "uv_local" ->
                    Transport("UvxStdioTransport", OrNone(cfg.args), None)
              [] OTHER ->
                    Transport("url", None,
                              Some(Url(cfg.url.base,
                                       Append(cfg.url.query, <<"", "">>)))))]

\* _create_transport without its tests for a missing sub-config.
CreateTransport_NoCheck(cfg) ==
    [raised |-> None,
     transport |-> Some(
       CASE cfg.transport_type = "stdio" ->
               Transport("StdioTransport", Some(cfg.args), None)
         [] cfg.transport_type = "uv_installed" ->
               Transport("UvStdioTransport", OrNone(cfg.args), None)
         [] cfg.transport_type = "uv_local" ->
               Transport("UvxStdioTransport", OrNone(cfg.args), None)
         [] OTHER -> Transport("url", None, Some(cfg.url)))]

\* _create_transport: the transport, or the ValueError for a missing
\* sub-config.
CreateTransport(cfg) ==
    IF SubConfigOf(cfg.transport_type) \notin cfg.populated
    THEN [raised |-> Some(ConfigurationError), transport |-> None]
    ELSE [raised |-> None,
          transport |-> Some(
            CASE cfg.transport_type = "stdio" ->
                    Transport("StdioTransport", Some(cfg.args), None)
              [] cfg.transport_type = "uv_installed" ->
                    Transport("UvStdioTransport", OrNone(cfg.args), None)
              [] cfg.transport_type = "uv_local" ->
                    Transport("UvxStdioTransport", OrNone(cfg.args), None)
              [] OTHER -> Transport("url", None, Some(cfg.url)))]

\* _ensure_connected with its test left out.
EnsureConnected_NoCheck(cl, conn) == TRUE

\* _ensure_connected's test: not self._client or not self._connected.
EnsureConnected(cl, conn) == cl # None /\ conn

\* A connect() scope: where its coroutine stands, the exception that is on
\* its way to the caller, and the initialize_result of its Client object
\* (None: it has none).
\*   unused    connect() not called
\*   entering  awaiting Client.__aenter__ (open the connection, handshake)
\*   open      the caller's block is running
\*   exiting   awaiting Client.__aexit__ (release the connection)
\*   returned  connect() ended normally
\*   raised    connect() ended with an exception
Scope(pc, error, init) == [pc |-> pc, error |-> error, init |-> init]
Unused == Scope("unused", None, None)
Ended(pc) == Scope(pc, None, None)

\* The connection of scope c can still answer a call.
Live(c) == conns[c].pc \in {"open", "exiting"}

\* A call of a capability operation: not made yet, awaiting its protocol
\* call with the operation's locals (client, request_entry), or ended, with
\* how its protocol call ended (wire) and what the caller got (outcome).
NoOutcome == [kind |-> "none", value |-> "", error |-> None]
Returned(v) == [kind |-> "returned", value |-> v, error |-> None]
Raised(e) == [kind |-> "raised", value |-> "", error |-> Some(e)]
Call(pc, op, cl, request_entry, wire, outcome) ==
    [pc |-> pc, op |-> op, client |-> cl, request_entry |-> request_entry,
     wire |-> wire, outcome |-> outcome]
NoWire == [how |-> "none", exc |-> None]
WireReturned == [how |-> "returned", exc |-> None]
WireRaised(e) == [how |-> "raised", exc |-> Some(e)]
NotCalled == Call("new", "", None, None, NoWire, NoOutcome)

\* No function has been called directly.
NoArg == [fn |-> "none"]

\* Nothing outside the session exists yet: no list is kept, no logger and no
\* client object was made, and the TUI has no dialog, no worker and an empty
\* tree.
OthersIdle ==
    /\ held = None
    /\ loggers = <<>>
    /\ sessions = <<>>
    /\ current_tool = None
    /\ tool_dialog = None
    /\ mounted = {}
    /\ loading = {}
    /\ messages = <<>>
    /\ tool_workers = <<>>
    /\ tree = <<>>
    /\ load_workers = <<>>
    /\ op_workers = <<>>
    /\ app = "new"

Init ==
    /\ config \in SessionConfigs
    /\ library \in Libraries
    /\ connected = FALSE
    /\ client = None
    /\ server_info = None
    /\ entries = <<>>
    /\ conns = [c \in ConnIds |-> Unused]
    /\ nconn = 0
    /\ calls = [k \in Calls |-> NotCalled]
    /\ nclears = 0
    /\ now = 0
    /\ handle = None
    /\ arg = NoArg
    /\ out = None
    /\ OthersIdle

\* The calls of the session's interface made so far.
Events == nconn + Cardinality({k \in Calls : calls[k].pc # "new"}) + nclears

\* connect(), up to its first await: the transport is created and
\* Client(transport).__aenter__ is entered.
ConnectStart ==
    /\ Events < MaxEvents
    /\ nconn' = nconn + 1
    /\ LET tr == CreateTransport(config)
       IN  conns' = [conns EXCEPT ![nconn + 1] =
                        IF tr.raised # None THEN Scope("raised", tr.raised, None)
                        ELSE Scope("entering", None, None)]
    /\ UNCHANGED <<others, handle, arg, out, config, library, connected, client, server_info, entries,
                   calls, nclears, now>>

\* Client.__aenter__ fails: the connection could not be opened or the
\* handshake failed.  The exception leaves connect().
ConnectFailed(c) ==
    /\ conns[c].pc = "entering"
    /\ conns' = [conns EXCEPT ![c] = Ended("raised")]
    /\ UNCHANGED <<others, handle, arg, out, config, library, connected, client, server_info, entries,
                   nconn, calls, nclears, now>>

\* connect() logging the initialization result without caching the
\* ServerInfo parsed from it.
Entered_NoCache(c, init, log, info, clock) ==
    [client |-> Some(c), connected |-> TRUE, server_info |-> info,
     entries |-> IF init = None THEN log
                 ELSE LogResponse(log, clock, "initialize", InitValue(Get(init)),
                                  None, None),
     raised |-> IF init = None THEN None ELSE ServerInfo(Get(init)).raised]

\* connect() taking as its handle the Client of the session's earlier
\* connection instead of the one it has just entered.
Entered_StaleHandle(c, init, log, info, clock) ==
    IF init = None
    THEN [client |-> Some(0), connected |-> TRUE, server_info |-> info,
          entries |-> log, raised |-> None]
    ELSE LET parsed == ServerInfo(Get(init))
         IN  IF parsed.raised # None
             THEN [client |-> Some(0), connected |-> TRUE, server_info |-> info,
                   entries |-> log, raised |-> parsed.raised]
             ELSE [client |-> Some(0), connected |-> TRUE,
                   server_info |-> parsed.info,
                   entries |-> LogResponse(log, clock, "initialize",
                                           InitValue(Get(init)), None, None),
                   raised |-> None]

\* The session's fields after the body of "async with Client(...)" up to the
\* yield, given the initialization result the Client holds (None: it holds
\* none): client, connected, server_info, the log and the exception raised
\* on the way.
Entered(c, init, log, info, clock) ==
    IF init = None
    THEN [client |-> Some(c), connected |-> TRUE, server_info |-> info,
          entries |-> log, raised |-> None]
    ELSE LET parsed == ServerInfo(Get(init))
         IN  IF parsed.raised # None
             THEN [client |-> Some(c), connected |-> TRUE, server_info |-> info,
                   entries |-> log, raised |-> parsed.raised]
             ELSE [client |-> Some(c), connected |-> TRUE,
                   server_info |-> parsed.info,
                   entries |-> LogResponse(log, clock, "initialize",
                                           InitValue(Get(init)), None, None),
                   raised |-> None]

\* Client.__aenter__ returns: the session takes the handle, parses and logs
\* the initialization result and yields to the caller's block.  A failure of
\* the parsing leaves through "async with", which releases the connection.
ConnectEntered(c) ==
    /\ conns[c].pc = "entering"
    /\ \E init \in {None} \cup {Some(r) : r \in InitResults} :
         LET s == Entered(c, init, entries, server_info, now)
         IN  /\ client' = s.client
             /\ connected' = s.connected
             /\ server_info' = s.server_info
             /\ entries' = s.entries
             /\ conns' = [conns EXCEPT ![c] =
                             IF s.raised # None THEN Scope("exiting", s.raised, init)
                             ELSE Scope("open", None, init)]
    /\ UNCHANGED <<others, handle, arg, out, config, library, nconn, calls, nclears, now>>

\* How the caller's block inside connect() ends.
BlockEnds == {"return", "exception", "cancel"}

\* An exception raised by the caller's own code inside the block.
BlockFailure == Exc("Exception", "block failed")

\* The exception that leaves the block.
BlockError(how) ==
    CASE how = "return" -> None
      [] how = "exception" -> Some(BlockFailure)
      [] how = "cancel" -> Some(CancelledError)

\* The clean-up written after the yield without try/finally: it runs only
\* when the block returns.
Finally_OnReturnOnly(how, cl, conn, info) ==
    IF how = "return"
    THEN [client |-> None, connected |-> FALSE, server_info |-> None]
    ELSE [client |-> cl, connected |-> conn, server_info |-> info]

\* The finally clause resetting the flag and the ServerInfo but keeping the
\* handle.
Finally_KeepsHandle(how, cl, conn, info) ==
    [client |-> cl, connected |-> FALSE, server_info |-> None]

\* The finally clause around the yield: the session's fields after the block
\* ended in the way how.
Finally(how, cl, conn, info) ==
    [client |-> None, connected |-> FALSE, server_info |-> None]

\* The caller's block ends: the finally clause runs and "async with" starts
\* to release the connection.
BlockExit(c) ==
    /\ conns[c].pc = "open"
    /\ \E how \in BlockEnds :
         LET s == Finally(how, client, connected, server_info)
         IN  /\ client' = s.client
             /\ connected' = s.connected
             /\ server_info' = s.server_info
             /\ conns' = [conns EXCEPT ![c] =
                             Scope("exiting", BlockError(how), conns[c].init)]
    /\ UNCHANGED <<others, handle, arg, out, config, library, entries, nconn, calls, nclears, now>>

\* Client.__aexit__ returns: the connection is released and connect() ends,
\* with the pending exception if there is one.
ConnectExited(c) ==
    /\ conns[c].pc = "exiting"
    /\ conns' = [conns EXCEPT ![c] =
                    IF conns[c].error = None THEN Ended("returned")
                    ELSE Ended("raised")]
    /\ UNCHANGED <<others, handle, arg, out, config, library, connected, client, server_info, entries,
                   nconn, calls, nclears, now>>

\* ------------------------------------------------------------- tool results
\* How a wire result exposes an attribute: not at all, as None, False or
\* True.
Attr == {"absent", "null", "false", "true"}

\* Content items: text content has a text attribute, image content has
\* none.  An item is a pydantic model, as the protocol's content types are
\* (model_dump turns it into a dict of strings), or a plain object with the
\* same attributes (model_dump leaves it as it is).
TextContent(text, model) == [type |-> "text", text |-> text, model |-> model]
ImageContent(model) == [type |-> "image", model |-> model]
ContentItems ==
    {TextContent(t, m) : t \in {"a", "b"}, m \in BOOLEAN}
        \cup {ImageContent(m) : m \in BOOLEAN}

\* The content of a wire result: None, or a list of up to MaxContent items.
MaxContent == 2
Contents ==
    {None} \cup
    {Some(c) : c \in UNION {[1..n -> ContentItems] : n \in 0..MaxContent}}

\* The results client.call_tool returns, as call_tool and log_response see
\* them: how the object exposes is_error and isError (FastMCP's result type
\* has the first, the protocol's the second, an object may have both or
\* neither), its content (None, empty or a list of items), and whether it is
\* a pydantic model (it offers model_dump) or a plain object.
WireResults ==
    [is_error : Attr, isError : Attr, content : Contents, model : BOOLEAN]

\* The wire result as the value log_response is given.  model_dump() of a
\* pydantic result dumps the items that are models and keeps the others as
\* they are, so json.dumps accepts the dump when every item is a model.  A
\* plain object is an object with __dict__.
WireValue(result) ==
    IF result.model
    THEN Value("model", "CallToolResult",
               \/ result.content = None
               \/ \A i \in DOMAIN Get(result.content) :
                     Get(result.content)[i].model)
    ELSE Value("object", "CallToolResult", FALSE)

\* getattr(result, "is_error", getattr(result, "isError", False)) or False
IsError(result) ==
    LET camel == IF result.isError = "absent" THEN "false" ELSE result.isError
        snake == IF result.is_error = "absent" THEN camel ELSE result.is_error
    IN  snake = "true"

\* ToolCallResult.text returning the text of the last item that has one.
RECURSIVE Text_Last(_)
Text_Last(content) ==
    IF content = <<>> THEN None
    ELSE LET item == content[Len(content)]
         IN  IF "text" \in DOMAIN item THEN Some(item.text)
             ELSE Text_Last(SubSeq(content, 1, Len(content) - 1))

\* ToolCallResult.text: the loop over content, returning item.text of the
\* first item with a text attribute, and None after the loop.
RECURSIVE Text(_)
Text(content) ==
    IF content = <<>> THEN None
    ELSE IF "text" \in DOMAIN Head(content) THEN Some(Head(content).text)
         ELSE Text(Tail(content))

\* The ToolCallResult call_tool builds from the wire result, with its text
\* property.
ToolCallResult(name, args, result) ==
    LET content == IF result.content = None THEN <<>> ELSE Get(result.content)
    IN  [tool_name |-> name, arguments |-> args, content |-> content,
         is_error |-> IsError(result), text |-> Text(content)]

\* ------------------------------------------------------------- operations
Ops ==
    {"list_resources", "read_resource", "subscribe_resource",
     "unsubscribe_resource", "list_prompts", "get_prompt", "list_tools",
     "call_tool", "ping", "create_message", "list_roots"}

\* The protocol method an operation logs.
MethodOf(op) ==
    CASE op = "list_resources" -> "resources/list"
      [] op = "read_resource" -> "resources/read"
      [] op = "subscribe_resource" -> "resources/subscribe"
      [] op = "unsubscribe_resource" -> "resources/unsubscribe"
      [] op = "list_prompts" -> "prompts/list"
      [] op = "get_prompt" -> "prompts/get"
      [] op = "list_tools" -> "tools/list"
      [] op = "call_tool" -> "tools/call"
      [] op = "ping" -> "ping"
      [] op = "create_message" -> "sampling/createMessage"
      [] op = "list_roots" -> "roots/list"

\* The operations that wrap their uri argument in AnyUrl before the call.
UriOps == {"read_resource", "subscribe_resource", "unsubscribe_resource"}

\* The operations whose params hold values of any type (call_tool's
\* arguments, create_message's keyword arguments).
AnyParamOps == {"call_tool", "create_message"}

\* The arguments of an invocation: whether json.dumps accepts the params
\* built from them, and whether the uri is a URL.
OpInputs(op) ==
    {[json |-> j, uri_ok |-> u] :
        j \in (IF op \in AnyParamOps THEN BOOLEAN ELSE {TRUE}),
        u \in (IF op \in UriOps THEN BOOLEAN ELSE {TRUE})}

\* The params an operation hands to log_request (None: it hands none).
Params(op, inp) ==
    CASE op \in UriOps -> Some(Value("mapping", "uri", TRUE))
      [] op = "get_prompt" -> Some(Value("mapping", "name,arguments", TRUE))
      [] op = "call_tool" -> Some(Value("mapping", "name,arguments", inp.json))
      [] op = "create_message" -> Some(Value("mapping", "messages,max_tokens", inp.json))
      [] OTHER -> None

\* What an operation hands to log_response after a successful call.
SuccessValue(op) ==
    CASE op = "list_resources" -> Value("mapping", "resources", FALSE)
      [] op = "read_resource" -> Value("model", "ReadResourceResult", FALSE)
      [] op = "subscribe_resource" -> Value("mapping", "subscribed", TRUE)
      [] op = "unsubscribe_resource" -> Value("mapping", "unsubscribed", TRUE)
      [] op = "list_prompts" -> Value("mapping", "prompts", FALSE)
      [] op = "get_prompt" -> Value("model", "GetPromptResult", TRUE)
      [] op = "list_tools" -> Value("mapping", "tools", FALSE)
      [] op = "call_tool" -> Value("object", "CallToolResult", FALSE)
      [] op = "ping" -> Value("mapping", "success=True", TRUE)
      [] op = "create_message" -> Value("model", "CreateMessageResult", TRUE)
      [] op = "list_roots" -> Value("mapping", "roots", FALSE)

\* What an operation returns to its caller after a successful call.
SuccessReturn(op) ==
    CASE op = "list_resources" -> "resources"
      [] op = "read_resource" -> "ReadResourceResult"
      [] op \in {"subscribe_resource", "unsubscribe_resource"} -> "None"
      [] op = "list_prompts" -> "prompts"
      [] op = "get_prompt" -> "GetPromptResult"
      [] op = "list_tools" -> "tools"
      [] op = "call_tool" -> "ToolCallResult"
      [] op = "ping" -> "True"
      [] op = "create_message" -> "CreateMessageResult"
      [] op = "list_roots" -> "roots"

\* What an operation hands to log_response in its except clause.
FailureValue(op) ==
    IF op = "ping" THEN Value("mapping", "success=False", TRUE) ELSE EmptyMapping

\* The state of an operation after one stretch of its coroutine: the log,
\* whether it is now awaiting the protocol call, its request_entry, and how
\* it ended if it did.
OpState(log, awaiting, request_entry, outcome) ==
    [entries |-> log, awaiting |-> awaiting, request_entry |-> request_entry,
     outcome |-> outcome]

\* The except clause returning an empty result after logging, where the
\* code re-raises.
OnException_Degrade(op, log, clock, request_entry, e) ==
    IF IsException(e)
    THEN OpState(LogResponse(log, clock, MethodOf(op), FailureValue(op),
                             request_entry, Some(e.msg)),
                 FALSE, None,
                 IF op = "ping" THEN Returned("False") ELSE Returned("[]"))
    ELSE OpState(log, FALSE, None, Raised(e))

\* The except clause of ping re-raising like the other operations'.
OnException_PingRaises(op, log, clock, request_entry, e) ==
    IF IsException(e)
    THEN OpState(LogResponse(log, clock, MethodOf(op), FailureValue(op),
                             request_entry, Some(e.msg)),
                 FALSE, None, Raised(e))
    ELSE OpState(log, FALSE, None, Raised(e))

\* The except clause of an operation, entered with the exception e raised
\* in its try block: "except Exception" logs and re-raises (ping: returns
\* False); a CancelledError is no Exception and passes through.
OnException(op, log, clock, request_entry, e) ==
    IF IsException(e)
    THEN OpState(LogResponse(log, clock, MethodOf(op), FailureValue(op),
                             request_entry, Some(e.msg)),
                 FALSE, None,
                 IF op = "ping" THEN Returned("False") ELSE Raised(e))
    ELSE OpState(log, FALSE, None, Raised(e))

\* The try block logging the success and then failing on the statements that
\* follow log_response, so that the except clause logs the call again.
OnSuccess_ThenError(op, log, clock, request_entry) ==
    OpState(LogResponse(LogResponse(log, clock, MethodOf(op), SuccessValue(op),
                                    request_entry, None),
                        clock, MethodOf(op), FailureValue(op), request_entry,
                        Some("AttributeError")),
            FALSE, None, Raised(Exc("AttributeError", "AttributeError")))

\* The try block of an operation after its protocol call returned.
OnSuccess(op, log, clock, request_entry) ==
    OpState(LogResponse(log, clock, MethodOf(op), SuccessValue(op),
                        request_entry, None),
            FALSE, None, Returned(SuccessReturn(op)))

\* list_roots raising on a Client without list_roots, as create_message
\* does, where the code returns an empty list.
RootsNotSupported_Raises(log, clock, request_entry) ==
    OpState(LogResponse(log, clock, "roots/list", EmptyMapping, request_entry,
                        Some("Roots not supported")),
            FALSE, None, Raised(Exc("NotImplementedError", "Roots not supported")))

\* list_roots on a Client without list_roots: the else branch.
RootsNotSupported(log, clock, request_entry) ==
    OpState(LogResponse(log, clock, "roots/list", EmptyMapping, request_entry,
                        Some("Roots not supported")),
            FALSE, None, Returned("[]"))

\* The try block of an operation up to its await.
TryBlock(op, inp, lib, log, clock, request_entry) ==
    CASE op = "list_roots" /\ ~lib.list_roots ->
            RootsNotSupported(log, clock, request_entry)
      [] op = "create_message" /\ ~lib.create_message ->
            OnException(op, log, clock, request_entry, SamplingUnsupported)
      [] op \in UriOps /\ ~inp.uri_ok ->
            OnException(op, log, clock, request_entry, UrlValidationError)
      [] OTHER -> OpState(log, TRUE, request_entry, NoOutcome)

\* A capability operation from its call to its first await (or to its end,
\* when it ends before awaiting).
Begin(op, inp, cfg, lib, cl, conn, log, clock) ==
    IF ~EnsureConnected(cl, conn)
    THEN OpState(log, FALSE, None, Raised(NotConnectedError))
    ELSE LET req == LogRequest(log, clock, cfg.log_requests, MethodOf(op),
                               Params(op, inp))
         IN  IF req.raised # None
             THEN OpState(req.entries, FALSE, None, Raised(Get(req.raised)))
             ELSE TryBlock(op, inp, lib, req.entries, clock, Some(req.entry))

\* The next call of a capability operation is made.
Invoke(k) ==
    /\ calls[k].pc = "new"
    /\ Events < MaxEvents
    /\ \A j \in Calls : j < k => calls[j].pc # "new"
    /\ \E op \in Ops : \E inp \in OpInputs(op) :
         LET s == Begin(op, inp, config, library, client, connected, entries, now)
         IN  /\ entries' = s.entries
             /\ calls' = [calls EXCEPT ![k] =
                             IF s.awaiting
                             THEN Call("awaiting", op, client, s.request_entry,
                                       NoWire, NoOutcome)
                             ELSE Call("ended", op, None, None, NoWire, s.outcome)]
    /\ UNCHANGED <<others, handle, arg, out, config, library, connected, client, server_info, conns,
                   nconn, nclears, now>>

\* The ways the awaited protocol call of call k can end: it returns (only a
\* connection that is not yet released answers), it raises a failure of the
\* library, or the task is cancelled while it waits.
CallEnds(k) ==
    (IF calls[k].client # None /\ Live(Get(calls[k].client))
     THEN {WireReturned} ELSE {})
        \cup {WireRaised(e) : e \in LibraryFailures \cup {CancelledError}}

\* The awaited protocol call of call k ends and the operation runs to its
\* end.
Complete(k) ==
    /\ calls[k].pc = "awaiting"
    /\ \E w \in CallEnds(k) :
         LET op == calls[k].op
             s == IF w.how = "returned"
                  THEN OnSuccess(op, entries, now, calls[k].request_entry)
                  ELSE OnException(op, entries, now, calls[k].request_entry,
                                   Get(w.exc))
         IN  /\ entries' = s.entries
             /\ calls' = [calls EXCEPT ![k] =
                             Call("ended", op, None, None, w, s.outcome)]
    /\ UNCHANGED <<others, handle, arg, out, config, library, connected, client, server_info, conns,
                   nconn, nclears, now>>

\* clear_logs().
ClearLogs ==
    /\ Events < MaxEvents
    /\ nclears' = nclears + 1
    /\ entries' = <<>>
    /\ UNCHANGED <<others, handle, arg, out, config, library, connected, client, server_info, conns,
                   nconn, calls, now>>

Next ==
    \/ ConnectStart
    \/ \E c \in ConnIds : ConnectFailed(c)
    \/ \E c \in ConnIds : ConnectEntered(c)
    \/ \E c \in ConnIds : BlockExit(c)
    \/ \E c \in ConnIds : ConnectExited(c)
    \/ \E k \in Calls : Invoke(k)
    \/ \E k \in Calls : Complete(k)
    \/ ClearLogs

Spec == Init /\ [][Next]_vars

\* -------------------------------------------------- the logger on its own
\* An MCPLogger() used directly, as the session uses it: its caller logs
\* requests (keeping the returned entry or not), responses (handing a kept
\* entry back or not) and notifications, clears the log, and owns the
\* dicts it passed.  The wall clock is the machine's: it may be set to any
\* reading between two calls.

\* Entries a directly used log holds at most.
MaxLog == 2

\* The wall clock reads 0..MaxClock milliseconds.
MaxClock == 1
Clock == 0..MaxClock

\* The methods, params and results the direct caller logs.  The results are
\* the {"tools": [...]} dict of list_tools, whose Tool objects json.dumps
\* rejects, and a scalar.
LogMethods == {"ping", "tools/list"}
CallerParams == {None, Some(Value("mapping", "args", TRUE))}
CallerResults == {Value("mapping", "tools", FALSE), Value("scalar", "pong", TRUE)}

\* The session's fields, which a directly used logger does not touch.
session == <<config, library, connected, client, server_info, conns, nconn,
             calls, nclears>>

\* A session that is constructed and never used.
SessionIdle ==
    /\ config = ForTransport("stdio")
    /\ library = [list_roots |-> FALSE, create_message |-> FALSE]
    /\ connected = FALSE
    /\ client = None
    /\ server_info = None
    /\ conns = [c \in ConnIds |-> Unused]
    /\ nconn = 0
    /\ calls = [k \in Calls |-> NotCalled]
    /\ nclears = 0

LoggerInit ==
    /\ SessionIdle
    /\ entries = <<>>
    /\ now = 0
    /\ handle = None
    /\ arg = NoArg
    /\ out = None
    /\ OthersIdle

\* The wall clock moves, forwards or backwards.
ClockSet ==
    /\ \E t \in Clock \ {now} : now' = t
    /\ UNCHANGED <<others, session, entries, handle, arg, out>>

\* log_request(method, params); the caller keeps the returned entry when
\* keep is true.
LogRequestCall(method, params, keep) ==
    /\ Len(entries) < MaxLog
    /\ LET req == LogRequest(entries, now, TRUE, method, params)
       IN  /\ entries' = req.entries
           /\ handle' = IF keep /\ req.raised = None THEN Some(req.entry) ELSE handle
           /\ arg' = [fn |-> "log_request"]
           /\ out' = IF req.raised = None THEN None ELSE req.raised
    /\ UNCHANGED <<others, session, now>>

\* log_response(method, result, request_entry, error), request_entry being
\* the kept entry or None.
LogResponseCall(method, result, request_entry, error) ==
    /\ Len(entries) < MaxLog
    /\ entries' = LogResponse(entries, now, method, result, request_entry, error)
    /\ arg' = [fn |-> "log_response", request_entry |-> request_entry]
    /\ out' = None
    /\ UNCHANGED <<others, session, now, handle>>

\* log_notification(method, params).
LogNotificationCall(method, params) ==
    /\ Len(entries) < MaxLog
    /\ entries' = LogNotification(entries, now, method, params)
    /\ arg' = [fn |-> "log_notification"]
    /\ out' = None
    /\ UNCHANGED <<others, session, now, handle>>

\* clear().
ClearCall ==
    /\ entries # <<>>
    /\ entries' = <<>>
    /\ arg' = [fn |-> "clear"]
    /\ out' = None
    /\ UNCHANGED <<others, session, now, handle>>

\* The dicts the direct caller owns and passes as params or as result, by
\* content, and the content of each after the caller changed it.
CallerDicts == {"args", "tools"}
Modified(body) ==
    CASE body = "args" -> "args, modified"
      [] body = "tools" -> "tools, modified"

\* The entry holds the caller's dict itself: log_request and
\* log_notification store "params or {}" (the dict passed, unless it is None
\* or empty), log_response stores a dict result as it is.
HoldsDict(entry, body) == entry.data.form = "same" /\ entry.data.body = body

\* The caller changes a dict it passed to the logger earlier: every entry
\* that holds the dict shows the change.
CallerModifies(body) ==
    /\ \E i \in 1..Len(entries) : HoldsDict(entries[i], body)
    /\ entries' = [i \in 1..Len(entries) |->
                      IF HoldsDict(entries[i], body)
                      THEN [entries[i] EXCEPT !.data.body = Modified(body)]
                      ELSE entries[i]]
    /\ handle' = IF handle # None /\ HoldsDict(Get(handle), body)
                 THEN Some([Get(handle) EXCEPT !.data.body = Modified(body)])
                 ELSE handle
    /\ arg' = [fn |-> "caller"]
    /\ out' = None
    /\ UNCHANGED <<others, session, now>>

LoggerNext ==
    \/ ClockSet
    \/ \E m \in LogMethods : \E p \in CallerParams : \E keep \in BOOLEAN :
          LogRequestCall(m, p, keep)
    \/ \E m \in LogMethods : \E r \in CallerResults :
       \E h \in {None, handle} : \E e \in {None, Some("boom")} :
          LogResponseCall(m, r, h, e)
    \/ \E m \in LogMethods : \E p \in CallerParams : LogNotificationCall(m, p)
    \/ ClearCall
    \/ \E b \in CallerDicts : CallerModifies(b)

LoggerSpec == LoggerInit /\ [][LoggerNext]_vars

\* ------------------------------------------------- calls on an open session
\* The session as connect() leaves it when the caller's block starts, and
\* the calls made while the block runs: capability operations, which may be
\* in flight together, and clear_logs().  Events counts the calls made from
\* there on.
\* The configurations an open session is checked with: logging.enabled left
\* at its default and set to false.
OpenConfigs ==
    {ForTransport("stdio"), [ForTransport("stdio") EXCEPT !.enabled = FALSE]}

OpenInit ==
    /\ config \in OpenConfigs
    /\ library = [list_roots |-> FALSE, create_message |-> TRUE]
    /\ LET init == Some([serverInfo |-> Some("alpha"), tools |-> Some("listChanged")])
           s == Entered(1, init, <<>>, None, 0)
       IN  /\ client = s.client
           /\ connected = s.connected
           /\ server_info = s.server_info
           /\ entries = s.entries
           /\ conns = [c \in ConnIds |->
                         IF c = 1 THEN Scope("open", None, init) ELSE Unused]
    /\ nconn = 0
    /\ calls = [k \in Calls |-> NotCalled]
    /\ nclears = 0
    /\ now = 0
    /\ handle = None
    /\ arg = NoArg
    /\ out = None
    /\ OthersIdle

OpenNext ==
    \/ \E k \in Calls : Invoke(k)
    \/ \E k \in Calls : Complete(k)
    \/ ClearLogs

OpenSpec == OpenInit /\ [][OpenNext]_vars

\* ------------------------------------------------------ a session used again
\* A session whose earlier connection (scope 0) has ended, and the calls made
\* on it from there on by a caller that uses one connection at a time:
\* connect() is called when no connect() of the session is in progress.
\* Events counts the calls made from there on.

\* How the earlier connection ended: connect() failed before the block
\* started, or the block ran and ended in one of BlockEnds.
EarlierEnds == {"failed"} \cup BlockEnds

\* The session after its earlier connection ended: the fields as connect()
\* and its finally clause left them, and the log with what the earlier
\* handshake logged.
ReuseInit ==
    /\ config = ForTransport("stdio")
    /\ library = [list_roots |-> FALSE, create_message |-> TRUE]
    /\ \E how \in EarlierEnds :
         LET init == Some([serverInfo |-> Some("alpha"), tools |-> Some("listChanged")])
             s == Entered(0, init, <<>>, None, 0)
             f == Finally(how, s.client, s.connected, s.server_info)
         IN  IF how = "failed"
             THEN /\ client = None
                  /\ connected = FALSE
                  /\ server_info = None
                  /\ entries = <<>>
                  /\ conns = [c \in ConnIds |->
                                IF c = 0 THEN Ended("raised") ELSE Unused]
             ELSE /\ client = f.client
                  /\ connected = f.connected
                  /\ server_info = f.server_info
                  /\ entries = s.entries
                  /\ conns = [c \in ConnIds |->
                                IF c = 0
                                THEN Ended(IF how = "return" THEN "returned"
                                           ELSE "raised")
                                ELSE Unused]
    /\ nconn = 0
    /\ calls = [k \in Calls |-> NotCalled]
    /\ nclears = 0
    /\ now = 0
    /\ handle = None
    /\ arg = NoArg
    /\ out = None
    /\ OthersIdle

\* connect() called by a caller that uses one connection at a time.
ConnectAgain ==
    /\ \A c \in ConnIds : conns[c].pc \in {"unused", "returned", "raised"}
    /\ ConnectStart

ReuseNext ==
    \/ ConnectAgain
    \/ \E c \in ConnIds : ConnectFailed(c)
    \/ \E c \in ConnIds : ConnectEntered(c)
    \/ \E c \in ConnIds : BlockExit(c)
    \/ \E c \in ConnIds : ConnectExited(c)
    \/ \E k \in Calls : Invoke(k)
    \/ \E k \in Calls : Complete(k)
    \/ ClearLogs

ReuseSpec == ReuseInit /\ [][ReuseNext]_vars

\* ------------------------------------------------------- functions on their own
\* One call of a function of the logger or of the session whose result
\* depends on its arguments alone: get_entries and export_json on a log,
\* the end of call_tool on a wire result, _create_transport on a
\* configuration.

\* Tokens an argument list holds at most.
MaxArgs == 2

RECURSIVE SeqsUpTo(_, _)
SeqsUpTo(S, n) ==
    IF n = 0 THEN {<<>>}
    ELSE LET shorter == SeqsUpTo(S, n - 1)
         IN  shorter \cup {Append(q, x) : q \in shorter, x \in S}

\* The logs of at most n entries a logger holds after calls of log_request,
\* log_response and log_notification.
RECURSIVE LogsUpTo(_)
LogsUpTo(n) ==
    IF n = 0 THEN {<<>>}
    ELSE LET shorter == LogsUpTo(n - 1)
         IN  shorter
             \cup {LogRequest(l, 0, TRUE, m, None).entries :
                      l \in shorter, m \in LogMethods}
             \cup {LogResponse(l, 0, m, r, None, None) :
                      l \in shorter, m \in LogMethods, r \in CallerResults}
             \cup {LogNotification(l, 0, m, None) :
                      l \in shorter, m \in LogMethods}

Directions == {"request", "response", "notification"}

\* The arguments of get_entries.
GetEntriesArgs ==
    {[fn |-> "get_entries", direction |-> d, method |-> m, limit |-> n] :
        d \in {None} \cup {Some(x) : x \in Directions},
        m \in {None} \cup {Some(x) : x \in LogMethods \cup {""}},
        n \in {None} \cup {Some(x) : x \in 0..(MaxLog + 1)}}

\* The arguments of the ClientConfig constructors.
ArgTokens == {"server.py", "--verbose"}
ExtraTokens == {"env=prod", "debug", "a=b=c"}
Urls == {SseUrl, Url("http://localhost:8000/sse", << <<"token", "abc">> >>)}
HeaderSets == {NoHeaders, << <<"Authorization", "Bearer t">> >>}
Timeouts == {DefaultTimeout, 5}
ConfigArgs ==
    {[fn |-> "create_transport", tt |-> tt, args |-> a, url |-> SseUrl,
      headers |-> NoHeaders, timeout |-> DefaultTimeout, extra_args |-> x] :
        tt \in {"stdio", "uv_installed", "uv_local"},
        a \in SeqsUpTo(ArgTokens, MaxArgs), x \in SeqsUpTo(ExtraTokens, MaxArgs)}
    \cup
    {[fn |-> "create_transport", tt |-> tt, args |-> <<>>, url |-> u,
      headers |-> h, timeout |-> t, extra_args |-> x] :
        tt \in {"sse", "http"}, u \in Urls, h \in HeaderSets, t \in Timeouts,
        x \in SeqsUpTo(ExtraTokens, MaxArgs)}

\* The results log_response is given: a pydantic model, an object with a
\* __dict__, a dict, a number, a list and None.
LogResults ==
    {Value("model", "pong", TRUE), Value("object", "obj", FALSE),
     Value("mapping", "tools", FALSE), Value("scalar", "5", TRUE),
     Value("list", "[1, 2]", TRUE), Value("none", "None", TRUE)}

\* The value of a command-line option: a string, by whether it is the empty
\* string and the words shlex.split finds in it.
OptionText(empty, parts) == [empty |-> empty, parts |-> parts]
Words(parts) == OptionText(FALSE, parts)
EmptyText == OptionText(TRUE, <<>>)

\* bool(option): None and the empty string are false.
Truthy(option) == option # None /\ ~Get(option).empty

\* The connection options of a command: --stdio (absent, empty, blank, a
\* command, a command with an argument), --sse, --http, --uv and
\* --uv-local-name (absent, empty, a value) and --uv-local-path (absent or a
\* path; every Path is true).
StdioOptions ==
    {None, Some(EmptyText), Some(Words(<<>>)), Some(Words(<<"python">>)),
     Some(Words(<<"python", "server.py">>))}
TextOptions(word) == {None, Some(EmptyText), Some(Words(<<word>>))}
PathOptions == {None, Some(Words(<<"proj">>))}
ConnectionOptions ==
    {[fn |-> "build_config", stdio |-> a, sse |-> b, http |-> c, uv |-> d,
      uv_local_path |-> e, uv_local_name |-> f, timeout |-> t] :
        a \in StdioOptions, b \in TextOptions("http://localhost:8000/sse"),
        c \in TextOptions("http://localhost:8000/mcp"), d \in TextOptions("server"),
        e \in PathOptions, f \in TextOptions("server"), t \in Timeouts}

\* typer.BadParameter of validate_connection_options, the ValueError of
\* build_config and the IndexError of parts[0] on an empty list.
BadParameter == Exc("BadParameter", "connection method")
NoMethodError == Exc("ValueError", "No connection method specified")
IndexError == Exc("IndexError", "list index out of range")

\* validate_connection_options: the exception it raises, or None.
ValidateConnectionOptions(o) ==
    LET methods == <<o.stdio # None, o.sse # None, o.http # None, o.uv # None,
                     o.uv_local_path # None \/ o.uv_local_name # None>>
        count == Cardinality({i \in DOMAIN methods : methods[i]})
    IN  IF count = 0 \/ count > 1 THEN Some(BadParameter)
        ELSE IF (o.uv_local_path # None) # (o.uv_local_name # None)
             THEN Some(BadParameter)
             ELSE None

\* build_config: the ClientConfig, or the exception it raises.
BuildConfig(o) ==
    CASE Truthy(o.stdio) ->
            LET parts == Get(o.stdio).parts
            IN  IF parts = <<>> THEN [raised |-> Some(IndexError), config |-> None]
                ELSE [raised |-> None,
                      config |-> Some(For("stdio", Tail(parts), Url("", <<>>),
                                          NoHeaders, DefaultTimeout, <<>>))]
      [] ~Truthy(o.stdio) /\ Truthy(o.sse) ->
            [raised |-> None,
             config |-> Some(For("sse", <<>>, Url(Get(o.sse).parts[1], <<>>),
                                 NoHeaders, o.timeout, <<>>))]
      [] ~Truthy(o.stdio) /\ ~Truthy(o.sse) /\ Truthy(o.http) ->
            [raised |-> None,
             config |-> Some(For("http", <<>>, Url(Get(o.http).parts[1], <<>>),
                                 NoHeaders, o.timeout, <<>>))]
      [] ~Truthy(o.stdio) /\ ~Truthy(o.sse) /\ ~Truthy(o.http) /\ Truthy(o.uv) ->
            [raised |-> None,
             config |-> Some(For("uv_installed", <<>>, Url("", <<>>), NoHeaders,
                                 DefaultTimeout, <<>>))]
      [] ~Truthy(o.stdio) /\ ~Truthy(o.sse) /\ ~Truthy(o.http) /\ ~Truthy(o.uv)
            /\ Truthy(o.uv_local_path) /\ Truthy(o.uv_local_name) ->
            [raised |-> None,
             config |-> Some(For("uv_local", <<>>, Url("", <<>>), NoHeaders,
                                 DefaultTimeout, <<>>))]
      [] OTHER -> [raised |-> Some(NoMethodError), config |-> None]

\* A session that is never connected, or, for call_tool, a connected
\* session whose first call awaits client.call_tool.  A call about to be
\* made is given by its arguments, the log it reads and the configuration
\* the session was constructed with; the log of a call_tool whose protocol
\* call is about to return holds the request it logged.
CallInit ==
    LET Stdio == ForTransport("stdio")
        Logged == LogRequest(<<>>, 0, TRUE, "tools/call",
                             Params("call_tool", [json |-> TRUE, uri_ok |-> TRUE])).entries
        Starts(a, log, cfg) ==
            /\ arg = a
            /\ entries = log
            /\ config = cfg
            /\ IF a.fn = "call_tool"
               THEN /\ connected = TRUE
                    /\ client = Some(1)
                    /\ conns = [c \in ConnIds |->
                                  IF c = 1 THEN Scope("open", None, None) ELSE Unused]
                    /\ nconn = 1
                    /\ calls = [k \in Calls |->
                                  IF k = 1
                                  THEN Call("awaiting", "call_tool", Some(1),
                                            Some(log[1]), NoWire, NoOutcome)
                                  ELSE NotCalled]
               ELSE /\ connected = FALSE
                    /\ client = None
                    /\ conns = [c \in ConnIds |-> Unused]
                    /\ nconn = 0
                    /\ calls = [k \in Calls |-> NotCalled]
    IN
    /\ \/ \E a \in ConnectionOptions : Starts(a, <<>>, Stdio)
       \/ \E r \in LogResults, l \in LogsUpTo(1) :
             Starts([fn |-> "log_response", result |-> r], l, Stdio)
       \/ \E a \in GetEntriesArgs \cup {[fn |-> "export_json"]}, l \in LogsUpTo(MaxLog) :
             Starts(a, l, Stdio)
       \/ \E r \in WireResults :
             Starts([fn |-> "call_tool", result |-> r], Logged, Stdio)
       \/ \E a \in ConfigArgs :
             Starts(a, <<>>, For(a.tt, a.args, a.url, a.headers, a.timeout,
                                 a.extra_args))
    /\ library = [list_roots |-> FALSE, create_message |-> FALSE]
    /\ server_info = None
    /\ nclears = 0
    /\ now = 0
    /\ handle = None
    /\ out = None
    /\ OthersIdle

\* What a direct call returned, or the exception it raised.
Result(raised, value) == Some([raised |-> raised, value |-> value])

\* self.entries[-1].
LastOfLog(log) == log[Len(log)]

\* get_entries(direction, method, limit).
GetEntriesCall ==
    /\ out = None
    /\ arg.fn = "get_entries"
    /\ out' = Result(None, GetEntries(entries, arg.direction, arg.method, arg.limit))
    /\ UNCHANGED <<others, session, entries, now, handle, arg>>

\* export_json(), and json.loads of what it returned.
ExportJsonCall ==
    /\ out = None
    /\ arg.fn = "export_json"
    /\ LET exported == ExportJson(entries)
       IN  out' = IF exported.raised # None THEN Result(exported.raised, <<>>)
                  ELSE Result(None, JsonLoads(Get(exported.text)))
    /\ UNCHANGED <<others, session, entries, now, handle, arg>>

\* call_tool after client.call_tool returned arg.result: the response is
\* logged against the request entry and the ToolCallResult is returned.
CallToolReturns ==
    /\ out = None
    /\ arg.fn = "call_tool"
    /\ calls[1].pc = "awaiting"
    /\ entries' = LogResponse(entries, now, "tools/call", WireValue(arg.result),
                              calls[1].request_entry, None)
    /\ calls' = [calls EXCEPT ![1] =
                    Call("ended", "call_tool", None, None, WireReturned,
                         Returned(SuccessReturn("call_tool")))]
    /\ out' = Result(None, ToolCallResult("tool", "args", arg.result))
    /\ UNCHANGED <<others, config, library, connected, client, server_info, conns,
                   nconn, nclears, now, handle, arg>>

\* _create_transport().
CreateTransportCall ==
    /\ out = None
    /\ arg.fn = "create_transport"
    /\ LET tr == CreateTransport(config)
       IN  out' = IF tr.raised # None THEN Result(tr.raised, <<>>)
                  ELSE Result(None, Get(tr.transport))
    /\ UNCHANGED <<others, session, entries, now, handle, arg>>

\* log_response(method, result) called on the logger directly.
LogResponseReturns ==
    /\ out = None
    /\ arg.fn = "log_response"
    /\ entries' = LogResponse(entries, now, "tools/list", arg.result, None, None)
    /\ out' = Result(None, LastOfLog(entries'))
    /\ UNCHANGED <<others, session, now, handle, arg>>

\* A command of the CLI: validate_connection_options, then build_config.
BuildConfigCall ==
    /\ out = None
    /\ arg.fn = "build_config"
    /\ LET refused == ValidateConnectionOptions(arg)
           built == BuildConfig(arg)
       IN  out' = IF refused # None THEN Result(refused, <<>>)
                  ELSE IF built.raised # None THEN Result(built.raised, <<>>)
                       ELSE Result(None, Get(built.config))
    /\ UNCHANGED <<others, session, entries, now, handle, arg>>

CallNext ==
    \/ BuildConfigCall
    \/ LogResponseReturns
    \/ GetEntriesCall
    \/ ExportJsonCall
    \/ CallToolReturns
    \/ CreateTransportCall

CallSpec == CallInit /\ [][CallNext]_vars

\* ---------------------------------------------- lists kept from get_entries
\* get_entries returns self.entries itself when no filter and no limit
\* applies: "result = self.entries" is rebound to a new list only by a
\* truthy direction, method or limit.
ReturnsSelf(direction, method, limit) ==
    /\ direction = None
    /\ method = None \/ Get(method) = ""
    /\ limit = None \/ Get(limit) = 0

\* The list object get_entries returns: the logger's own list, or a new
\* list with the items selected.
Kept(log, direction, method, limit) ==
    IF ReturnsSelf(direction, method, limit)
    THEN [same |-> TRUE, items |-> <<>>]
    ELSE [same |-> FALSE, items |-> GetEntries(log, direction, method, limit)]

\* The items of a kept list, given the logger's entries.
ListOf(list, log) == IF list.same THEN log ELSE list.items

\* An item the caller puts into the list it holds.
CallerItem == MCPLogEntry(0, "item", "", Stored("same", EmptyMapping), None, None)

\* The caller calls get_entries and keeps the list returned.
GetEntriesKept ==
    /\ held = None
    /\ \E a \in GetEntriesArgs :
         /\ held' = Some(Kept(entries, a.direction, a.method, a.limit))
         /\ arg' = a
    /\ out' = None
    /\ UNCHANGED <<peers, widgets, session, entries, now, handle>>

\* The caller appends an item to the list it holds.
CallerAppends ==
    /\ held # None
    /\ Len(ListOf(Get(held), entries)) <= MaxLog
    /\ IF Get(held).same
       THEN entries' = Append(entries, CallerItem) /\ held' = held
       ELSE /\ held' = Some([Get(held) EXCEPT !.items = Append(@, CallerItem)])
            /\ entries' = entries
    /\ arg' = [fn |-> "append"]
    /\ out' = None
    /\ UNCHANGED <<peers, widgets, session, now, handle>>

\* The caller removes the last item of the list it holds.
CallerPops ==
    /\ held # None
    /\ ListOf(Get(held), entries) # <<>>
    /\ IF Get(held).same
       THEN entries' = SubSeq(entries, 1, Len(entries) - 1) /\ held' = held
       ELSE /\ held' = Some([Get(held) EXCEPT !.items = SubSeq(@, 1, Len(@) - 1)])
            /\ entries' = entries
    /\ arg' = [fn |-> "pop"]
    /\ out' = None
    /\ UNCHANGED <<peers, widgets, session, now, handle>>

\* The logger's entries are entries still: the caller put nothing in.
OnlyEntries == \A i \in DOMAIN entries : entries[i] # CallerItem

KeptNext ==
    \/ \E m \in LogMethods : \E p \in CallerParams :
          OnlyEntries /\ LogRequestCall(m, p, FALSE)
    \/ \E m \in LogMethods : \E r \in CallerResults :
          OnlyEntries /\ LogResponseCall(m, r, None, None)
    \/ \E m \in LogMethods : OnlyEntries /\ LogNotificationCall(m, None)
    \/ ClearCall
    \/ GetEntriesKept
    \/ CallerAppends
    \/ CallerPops

KeptSpec == LoggerInit /\ [][KeptNext]_vars

\* ------------------------------------------------ sessions of one process
MaxSessions == 2
MaxPeerLog == 1

\* ClientConfig.client_name, LogConfig.level and LogConfig.log_file.
ClientNames == {"mamba-mcp-client", "probe"}
Levels == {"INFO", "DEBUG"}
LogFiles == {None, Some("a.log"), Some("b.log")}
LoggingConfigs ==
    {[client_name |-> n, level |-> l, log_file |-> f] :
        n \in ClientNames, l \in Levels, f \in LogFiles}

\* The handlers __post_init__ builds: where a trace line is written.
StreamHandler == [class |-> "StreamHandler", to |-> "stderr"]
FileHandler(file) == [class |-> "FileHandler", to |-> file]

\* MCPLogger.__post_init__ on the logging module's loggers: getLogger(name)
\* is the one logger of that name in the process; its level is set, its
\* handlers are cleared and the new handlers are added.
PostInit(reg, name, level, log_file) ==
    LET handlers == IF log_file = None THEN <<StreamHandler>>
                    ELSE <<StreamHandler, FileHandler(Get(log_file))>>
    IN  [n \in DOMAIN reg \cup {name} |->
            IF n = name THEN [level |-> level, handlers |-> handlers] ELSE reg[n]]

\* MCPTestClient.__init__: the object's own fields; its logger writes its
\* trace lines through the logger named after the client.
NewClient(cfg) ==
    [name |-> cfg.client_name, entries |-> <<>>, client |-> None,
     connected |-> FALSE, server_info |-> None]

\* MCPTestClient(config).
Construct ==
    /\ Len(sessions) < MaxSessions
    /\ \E cfg \in LoggingConfigs :
         /\ sessions' = Append(sessions, NewClient(cfg))
         /\ loggers' = PostInit(loggers, cfg.client_name, cfg.level, cfg.log_file)
    /\ arg' = [fn |-> "MCPTestClient", session |-> Len(sessions) + 1]
    /\ UNCHANGED <<session, entries, now, handle, out, held, widgets>>

\* The logger of session s logs a request.
PeerLogRequest(s) ==
    /\ Len(sessions[s].entries) < MaxPeerLog
    /\ sessions' = [sessions EXCEPT ![s].entries =
                       LogRequest(@, now, FALSE, "ping", None).entries]
    /\ arg' = [fn |-> "log_request", session |-> s]
    /\ UNCHANGED <<session, entries, now, handle, out, held, loggers, widgets>>

\* connect() of session s reaches its yield, with a Client that holds no
\* initialization result.
PeerEnters(s) ==
    /\ ~sessions[s].connected
    /\ LET e == Entered(s, None, sessions[s].entries, sessions[s].server_info, now)
       IN  sessions' = [sessions EXCEPT ![s].client = e.client,
                                        ![s].connected = e.connected,
                                        ![s].server_info = e.server_info]
    /\ arg' = [fn |-> "connect", session |-> s]
    /\ UNCHANGED <<session, entries, now, handle, out, held, loggers, widgets>>

\* The block of session s ends.
PeerExits(s) ==
    /\ sessions[s].connected
    /\ LET f == Finally("return", sessions[s].client, sessions[s].connected,
                        sessions[s].server_info)
       IN  sessions' = [sessions EXCEPT ![s].client = f.client,
                                        ![s].connected = f.connected,
                                        ![s].server_info = f.server_info]
    /\ arg' = [fn |-> "exit", session |-> s]
    /\ UNCHANGED <<session, entries, now, handle, out, held, loggers, widgets>>

PeersNext ==
    \/ Construct
    \/ \E s \in DOMAIN sessions : PeerLogRequest(s)
    \/ \E s \in DOMAIN sessions : PeerEnters(s)
    \/ \E s \in DOMAIN sessions : PeerExits(s)

PeersSpec == LoggerInit /\ [][PeersNext]_vars

\* ----------------------------------------------------------------- the TUI
MaxDialogs == 2
MaxToolCalls == 2
MaxLoads == 2
MaxWorkers == 3
MaxFailures == 1

\* What the server lists.
Server == [tools |-> <<"echo">>, resources |-> <<"readme">>, prompts |-> <<"greet">>]

\* CapabilityTree.add_tools, add_resources, add_prompts: root.add(label)
\* with a node for each item.
AddTools(t, tools) == Append(t, [label |-> "Tools", items |-> tools])
AddResources(t, resources) == Append(t, [label |-> "Resources", items |-> resources])
AddPrompts(t, prompts) == Append(t, [label |-> "Prompts", items |-> prompts])

\* CapabilityTree.clear_tree.
ClearTree(t) == <<>>

\* The tool nodes of the tree.
ToolNodes(t) ==
    {t[i].items[j] : i \in {g \in DOMAIN t : t[g].label = "Tools"},
                     j \in 1..Len(Server.tools)}

\* The resource nodes of the tree.
ResourceNodes(t) ==
    {t[i].items[j] : i \in {g \in DOMAIN t : t[g].label = "Resources"},
                     j \in 1..Len(Server.resources)}

\* The workers the application has started, and the calls it is asked to
\* start.
Workers ==
    Len(load_workers) + Len(tool_workers) + Len(messages) + Len(op_workers)

\* A ToolCallDialog object nothing refers to yet: no worker, no posted
\* message and not the widget tree.
NewDialog ==
    CHOOSE d \in 1..(MaxDialogs + 1) :
       LET Held(e) == \/ e \in mounted
                      \/ \E w \in DOMAIN tool_workers : tool_workers[w].dialog = e
                      \/ \E m \in DOMAIN messages : messages[m] = e
       IN  ~Held(d) /\ \A e \in 1..(d - 1) : Held(e)

\* action_close_dialog: the dialog held and the mounted dialogs afterwards.
CloseDialog(dialog, widgets_mounted) ==
    IF dialog # None
    THEN [tool_dialog |-> None, mounted |-> widgets_mounted \ {Get(dialog)}]
    ELSE [tool_dialog |-> dialog, mounted |-> widgets_mounted]

\* execute_tool_call(tool_name, arguments) starts as a worker; the dialog is
\* the one the call was submitted from, by its Call button or by Enter.
ExecuteToolCall(workers, d, by, tool_name) ==
    Append(workers, [dialog |-> d, by |-> by, tool_name |-> tool_name,
                     pc |-> "started", how |-> None, request_entry |-> None])

\* A worker that calls one capability operation: action_ping and
\* read_selected_resource.
OpWorker(op) == [op |-> op, pc |-> "started", how |-> None, request_entry |-> None]

\* A node of the tree is selected.  handle_tree_selection stores a tool for
\* a later call; for a resource it starts read_selected_resource(uri) as a
\* worker and awaits the Worker the call returned, which is no awaitable:
\* the TypeError leaves the handler and the application stops handling
\* events and exits.  For a prompt it only writes to the result panel.
HandleTreeSelection ==
    /\ app = "mounted"
    /\ \/ /\ \E tool \in ToolNodes(tree) : current_tool' = Some(tool)
          /\ UNCHANGED <<op_workers, app>>
       \/ /\ ResourceNodes(tree) # {}
          /\ Workers < MaxWorkers
          /\ op_workers' = Append(op_workers, OpWorker("read_resource"))
          /\ app' = "exiting"
          /\ UNCHANGED current_tool
    /\ UNCHANGED <<session, entries, now, handle, arg, out, held, peers,
                   tool_dialog, mounted, loading, messages, tool_workers, tree,
                   load_workers>>

\* action_call_tool, with the tool that is current when it runs: nothing
\* when a dialog is open or no tool is current (an error is written), else
\* a new dialog is held and mounted.
ActionCallTool ==
    /\ app = "mounted"
    /\ NewDialog <= MaxDialogs
    /\ IF tool_dialog # None \/ current_tool' = None
       THEN UNCHANGED <<tool_dialog, mounted>>
       ELSE /\ tool_dialog' = Some(NewDialog)
            /\ mounted' = mounted \cup {NewDialog}
    /\ UNCHANGED <<session, entries, now, handle, arg, out, held, peers,
                   loading, messages, tool_workers, tree, load_workers,
                   op_workers, app>>

\* Key t or enter: action_call_tool.
KeyCallTool == UNCHANGED current_tool /\ ActionCallTool

\* on_tree_node_activated on a tool node: the tool becomes the current tool
\* and action_call_tool runs.
OnTreeNodeActivated ==
    /\ \E tool \in ToolNodes(tree) : current_tool' = Some(tool)
    /\ ActionCallTool

\* Escape, the Cancel button or DialogDismissed: action_close_dialog.
ActionCloseDialog ==
    /\ LET c == CloseDialog(tool_dialog, mounted)
       IN  /\ tool_dialog' = c.tool_dialog
           /\ mounted' = c.mounted
           /\ loading' = loading \cap c.mounted
    /\ tool_dialog # None
    /\ app = "mounted"
    /\ UNCHANGED <<session, entries, now, handle, arg, out, held, peers,
                   current_tool, messages, tool_workers, tree, load_workers,
                   op_workers, app>>

\* Enter in an input of the mounted dialog d: handle_input_submitted posts
\* ToolCallRequested.
HandleInputSubmitted(d) ==
    /\ app = "mounted"
    /\ d \in mounted
    /\ Len(tool_workers) + Len(messages) < MaxToolCalls
    /\ Workers < MaxWorkers
    /\ messages' = Append(messages, d)
    /\ UNCHANGED <<session, entries, now, handle, arg, out, held, peers,
                   current_tool, tool_dialog, mounted, loading, tool_workers,
                   tree, load_workers,
                   op_workers, app>>

\* The oldest ToolCallRequested reaches handle_tool_call_requested: the
\* dialog that is open now, if any, is set loading and the call starts.
HandleToolCallRequested ==
    /\ app = "mounted"
    /\ messages # <<>>
    /\ messages' = Tail(messages)
    /\ loading' = IF tool_dialog # None THEN loading \cup {Get(tool_dialog)}
                  ELSE loading
    /\ tool_workers' = ExecuteToolCall(tool_workers, Head(messages), "enter", "echo")
    /\ UNCHANGED <<session, entries, now, handle, arg, out, held, peers,
                   current_tool, tool_dialog, mounted, tree, load_workers,
                   op_workers, app>>

\* The Call button of the dialog, enabled until set_loading(True).
HandleCallButton ==
    /\ app = "mounted"
    /\ tool_dialog # None
    /\ Get(tool_dialog) \notin loading
    /\ Len(tool_workers) + Len(messages) < MaxToolCalls
    /\ Workers < MaxWorkers
    /\ loading' = loading \cup {Get(tool_dialog)}
    /\ tool_workers' = ExecuteToolCall(tool_workers, Get(tool_dialog), "button", "echo")
    /\ UNCHANGED <<session, entries, now, handle, arg, out, held, peers,
                   current_tool, tool_dialog, mounted, messages, tree,
                   load_workers,
                   op_workers, app>>

\* The failure of a protocol call the TUI awaits.
TuiFailure == Exc("McpError", "boom")

\* The protocol calls that have failed so far: each is logged with its
\* error, and the TUI never clears the log.
Failures == Cardinality({i \in DOMAIN entries : entries[i].error # None})

\* The arguments the TUI calls an operation with: the dialog's inputs are
\* strings, numbers and parsed JSON.
TuiInputs == [json |-> TRUE, uri_ok |-> TRUE]

\* The initialization results the server of the TUI leaves on the Client:
\* one naming the server, one without serverInfo.
TuiInitResults ==
    {[serverInfo |-> Some("alpha"), tools |-> Some("listChanged")],
     [serverInfo |-> None, tools |-> None]}

\* on_mount: connect_to_server() starts as a worker, which runs later.
OnMount ==
    /\ app = "new"
    /\ app' = "mounted"
    /\ UNCHANGED <<session, entries, now, handle, arg, out, held, peers,
                   current_tool, tool_dialog, mounted, loading, messages,
                   tool_workers, tree, load_workers, op_workers>>

\* The first stretch of the connect_to_server worker: connect() is called
\* and awaits Client.__aenter__.  A worker that has not run when the workers
\* are cancelled never runs.
ConnectToServer ==
    /\ app \in {"mounted", "exiting"}
    /\ nconn = 0
    /\ ConnectStart

\* Client.__aenter__ returns in connect_to_server: connect() reaches its
\* yield and the block calls load_capabilities(), then sleeps; a failure on
\* the way to the yield leaves through "async with".
ConnectedToServer ==
    /\ app # "exited"
    /\ conns[1].pc = "entering"
    /\ Len(load_workers) < MaxLoads
    /\ Workers < MaxWorkers
    /\ \E init \in {Some(r) : r \in TuiInitResults} :
         LET s == Entered(1, init, entries, server_info, now)
         IN  /\ client' = s.client
             /\ connected' = s.connected
             /\ server_info' = s.server_info
             /\ entries' = s.entries
             /\ conns' = [conns EXCEPT ![1] =
                             IF s.raised # None THEN Scope("exiting", s.raised, init)
                             ELSE Scope("open", None, init)]
             /\ load_workers' =
                   IF s.raised # None THEN load_workers
                   ELSE Append(load_workers,
                               [pc |-> "started", failed |-> FALSE,
                                request_entry |-> None])
    /\ UNCHANGED <<config, library, nconn, calls, nclears, now, handle, arg, out,
                   held, peers, current_tool, tool_dialog, mounted, loading,
                   messages, tool_workers, tree,
                   op_workers, app>>

\* The first stretch of execute_tool_call worker w: call_tool runs to its
\* await, or raises before it and the finally block closes the dialog.
ToolCallStarts(w) ==
    /\ app # "exited"
    /\ tool_workers[w].pc = "started"
    /\ LET s == Begin("call_tool", TuiInputs, config, library, client, connected,
                      entries, now)
           c == IF s.awaiting
                THEN [tool_dialog |-> tool_dialog, mounted |-> mounted]
                ELSE CloseDialog(tool_dialog, mounted)
       IN  /\ entries' = s.entries
           /\ tool_workers' =
                 [tool_workers EXCEPT
                    ![w].pc = IF s.awaiting THEN "awaiting" ELSE "done",
                    ![w].how = IF s.awaiting THEN None ELSE Some("error"),
                    ![w].request_entry = s.request_entry]
           /\ tool_dialog' = c.tool_dialog
           /\ mounted' = c.mounted
           /\ loading' = loading \cap c.mounted
    /\ UNCHANGED <<session, now, handle, arg, out, held, peers, current_tool,
                   messages, tree, load_workers,
                   op_workers, app>>

\* The call_tool awaited by worker w returns (only a connection that is not
\* released answers) or raises; the response is logged and the finally
\* block calls action_close_dialog.
ToolCallEnds(w, how) ==
    /\ app # "exited"
    /\ tool_workers[w].pc = "awaiting"
    /\ how = "result" => Live(1)
    /\ how = "error" => Failures < MaxFailures
    /\ LET s == IF how = "result"
                THEN OnSuccess("call_tool", entries, now,
                               tool_workers[w].request_entry)
                ELSE OnException("call_tool", entries, now,
                                 tool_workers[w].request_entry, TuiFailure)
           c == CloseDialog(tool_dialog, mounted)
       IN  /\ entries' = s.entries
           /\ tool_dialog' = c.tool_dialog
           /\ mounted' = c.mounted
           /\ loading' = loading \cap c.mounted
    /\ tool_workers' = [tool_workers EXCEPT ![w].pc = "done",
                                             ![w].how = Some(how),
                                             ![w].request_entry = None]
    /\ UNCHANGED <<session, now, handle, arg, out, held, peers, current_tool,
                   messages, tree, load_workers,
                   op_workers, app>>

\* action_refresh: load_capabilities() starts as a worker.
LoadCapabilities ==
    /\ app = "mounted"
    /\ Len(load_workers) < MaxLoads
    /\ Workers < MaxWorkers
    /\ load_workers' = Append(load_workers, [pc |-> "started", failed |-> FALSE,
                                            request_entry |-> None])
    /\ UNCHANGED <<session, entries, now, handle, arg, out, held, peers,
                   current_tool, tool_dialog, mounted, loading, messages,
                   tool_workers, tree,
                   op_workers, app>>

\* The list operation load_capabilities calls after op.
AfterList(op) ==
    CASE op = "list_tools" -> "list_resources"
      [] op = "list_resources" -> "list_prompts"
      [] OTHER -> "done"

\* load_capabilities from its call of the list operation op to its next
\* await or its end: an operation that raises before awaiting ends the load
\* when it is list_tools and is passed over otherwise.
RECURSIVE LoadFrom(_, _, _, _, _, _, _)
LoadFrom(op, cfg, lib, cl, conn, log, clock) ==
    IF op = "done"
    THEN [pc |-> "done", failed |-> FALSE, request_entry |-> None, entries |-> log]
    ELSE LET s == Begin(op, TuiInputs, cfg, lib, cl, conn, log, clock)
         IN  IF s.awaiting
             THEN [pc |-> op, failed |-> FALSE, request_entry |-> s.request_entry,
                   entries |-> s.entries]
             ELSE IF op = "list_tools"
             THEN [pc |-> "done", failed |-> TRUE, request_entry |-> None,
                   entries |-> s.entries]
             ELSE LoadFrom(AfterList(op), cfg, lib, cl, conn, s.entries, clock)

\* The first stretch of load_capabilities worker w: the tree is cleared and
\* list_tools is called.
LoadStarts(w) ==
    /\ app # "exited"
    /\ load_workers[w].pc = "started"
    /\ tree' = ClearTree(tree)
    /\ LET l == LoadFrom("list_tools", config, library, client, connected,
                         entries, now)
       IN  /\ entries' = l.entries
           /\ load_workers' = [load_workers EXCEPT ![w] =
                                  [pc |-> l.pc, failed |-> l.failed,
                                   request_entry |-> l.request_entry]]
    /\ UNCHANGED <<session, now, handle, arg, out, held, peers, current_tool,
                   tool_dialog, mounted, loading, messages, tool_workers,
                   op_workers, app>>

\* The list call awaited by load worker w returns (ok) or raises: the
\* response is logged, the group is added when it returned, and the load
\* goes on to its next call; a failure of list_tools ends the load.
LoadStep(w, ok) ==
    /\ app # "exited"
    /\ load_workers[w].pc \notin {"started", "done", "cancelled"}
    /\ ok => Live(1)
    /\ ~ok => Failures < MaxFailures
    /\ LET op == load_workers[w].pc
           s == IF ok
                THEN OnSuccess(op, entries, now, load_workers[w].request_entry)
                ELSE OnException(op, entries, now, load_workers[w].request_entry,
                                 TuiFailure)
           l == IF ~ok /\ op = "list_tools"
                THEN [pc |-> "done", failed |-> TRUE, request_entry |-> None,
                      entries |-> s.entries]
                ELSE LoadFrom(AfterList(op), config, library, client, connected,
                              s.entries, now)
       IN  /\ tree' = IF ~ok THEN tree
                      ELSE IF op = "list_tools" THEN AddTools(tree, Server.tools)
                      ELSE IF op = "list_resources"
                           THEN AddResources(tree, Server.resources)
                      ELSE AddPrompts(tree, Server.prompts)
           /\ entries' = l.entries
           /\ load_workers' = [load_workers EXCEPT ![w] =
                                  [pc |-> l.pc, failed |-> l.failed,
                                   request_entry |-> l.request_entry]]
    /\ UNCHANGED <<session, now, handle, arg, out, held, peers, current_tool,
                   tool_dialog, mounted, loading, messages, tool_workers,
                   op_workers, app>>

\* Key p or the Ping button: action_ping() starts as a worker.
ActionPing ==
    /\ app = "mounted"
    /\ Workers < MaxWorkers
    /\ op_workers' = Append(op_workers, OpWorker("ping"))
    /\ UNCHANGED <<session, entries, now, handle, arg, out, held, peers,
                   current_tool, tool_dialog, mounted, loading, messages,
                   tool_workers, tree, load_workers, app>>

\* The first stretch of worker w of action_ping or read_selected_resource:
\* the operation runs to its await, or raises before it and the error is
\* written to the result panel.
OpStarts(w) ==
    /\ app # "exited"
    /\ op_workers[w].pc = "started"
    /\ LET s == Begin(op_workers[w].op, TuiInputs, config, library, client,
                      connected, entries, now)
       IN  /\ entries' = s.entries
           /\ op_workers' =
                 [op_workers EXCEPT
                    ![w].pc = IF s.awaiting THEN "awaiting" ELSE "done",
                    ![w].how = IF s.awaiting THEN None ELSE Some("error"),
                    ![w].request_entry = s.request_entry]
    /\ UNCHANGED <<session, now, handle, arg, out, held, peers, current_tool,
                   tool_dialog, mounted, loading, messages, tool_workers, tree,
                   load_workers, app>>

\* The operation awaited by worker w returns (only a connection that is not
\* released answers) or raises: the response is logged and the outcome is
\* written to the result panel.
OpEnds(w, how) ==
    /\ app # "exited"
    /\ op_workers[w].pc = "awaiting"
    /\ how = "result" => Live(1)
    /\ how = "error" => Failures < MaxFailures
    /\ LET s == IF how = "result"
                THEN OnSuccess(op_workers[w].op, entries, now,
                               op_workers[w].request_entry)
                ELSE OnException(op_workers[w].op, entries, now,
                                 op_workers[w].request_entry, TuiFailure)
       IN  entries' = s.entries
    /\ op_workers' = [op_workers EXCEPT ![w].pc = "done",
                                         ![w].how = Some(how),
                                         ![w].request_entry = None]
    /\ UNCHANGED <<session, now, handle, arg, out, held, peers, current_tool,
                   tool_dialog, mounted, loading, messages, tool_workers, tree,
                   load_workers, app>>

\* The workers as cancel_all leaves them: one that has not run yet never
\* runs.
CancelAll(workers) ==
    [w \in DOMAIN workers |->
        IF workers[w].pc = "started"
        THEN [workers[w] EXCEPT !.pc = "cancelled"]
        ELSE workers[w]]

\* Key q: action_quit calls exit(); no event is handled any more, the
\* workers go on until they are cancelled.
ActionQuit ==
    /\ app = "mounted"
    /\ app' = "exiting"
    /\ UNCHANGED <<session, entries, now, handle, arg, out, held, peers,
                   current_tool, tool_dialog, mounted, loading, messages,
                   tool_workers, tree, load_workers, op_workers>>

\* The application that is exiting shuts down: its workers are cancelled.
Shutdown ==
    /\ app = "exiting"
    /\ app' = "exited"
    /\ tool_workers' = CancelAll(tool_workers)
    /\ load_workers' = CancelAll(load_workers)
    /\ op_workers' = CancelAll(op_workers)
    /\ UNCHANGED <<session, entries, now, handle, arg, out, held, peers,
                   current_tool, tool_dialog, mounted, loading, messages, tree>>

\* The sleep of connect_to_server is cancelled: the CancelledError leaves the
\* block, the finally clause of connect() runs and "async with" starts to
\* release the connection.
SleepCancelled ==
    /\ app = "exited"
    /\ conns[1].pc = "open"
    /\ LET s == Finally("cancel", client, connected, server_info)
       IN  /\ client' = s.client
           /\ connected' = s.connected
           /\ server_info' = s.server_info
    /\ conns' = [conns EXCEPT ![1] =
                    Scope("exiting", BlockError("cancel"), conns[1].init)]
    /\ UNCHANGED <<config, library, nconn, calls, nclears, entries, now, handle,
                   arg, out, held, peers, widgets>>

\* The call_tool awaited by worker w is cancelled: "except Exception" lets
\* the CancelledError pass and the finally block calls action_close_dialog.
ToolCallCancelled(w) ==
    /\ app = "exited"
    /\ tool_workers[w].pc = "awaiting"
    /\ LET s == OnException("call_tool", entries, now,
                            tool_workers[w].request_entry, CancelledError)
           c == CloseDialog(tool_dialog, mounted)
       IN  /\ entries' = s.entries
           /\ tool_dialog' = c.tool_dialog
           /\ mounted' = c.mounted
           /\ loading' = loading \cap c.mounted
    /\ tool_workers' = [tool_workers EXCEPT ![w].pc = "cancelled",
                                             ![w].how = Some("cancel"),
                                             ![w].request_entry = None]
    /\ UNCHANGED <<session, now, handle, arg, out, held, peers, current_tool,
                   messages, tree, load_workers, op_workers, app>>

\* The list call awaited by load worker w is cancelled: no except clause of
\* load_capabilities catches the CancelledError.
LoadCancelled(w) ==
    /\ app = "exited"
    /\ load_workers[w].pc \notin {"started", "done", "cancelled"}
    /\ entries' = OnException(load_workers[w].pc, entries, now,
                              load_workers[w].request_entry, CancelledError).entries
    /\ load_workers' = [load_workers EXCEPT ![w].pc = "cancelled",
                                             ![w].request_entry = None]
    /\ UNCHANGED <<session, now, handle, arg, out, held, peers, current_tool,
                   tool_dialog, mounted, loading, messages, tool_workers, tree,
                   op_workers, app>>

\* The operation awaited by worker w of action_ping or
\* read_selected_resource is cancelled.
OpCancelled(w) ==
    /\ app = "exited"
    /\ op_workers[w].pc = "awaiting"
    /\ entries' = OnException(op_workers[w].op, entries, now,
                              op_workers[w].request_entry, CancelledError).entries
    /\ op_workers' = [op_workers EXCEPT ![w].pc = "cancelled",
                                         ![w].how = Some("cancel"),
                                         ![w].request_entry = None]
    /\ UNCHANGED <<session, now, handle, arg, out, held, peers, current_tool,
                   tool_dialog, mounted, loading, messages, tool_workers, tree,
                   load_workers, app>>

TuiNext ==
    \/ OnMount
    \/ ConnectToServer
    \/ ConnectFailed(1)
    \/ ConnectedToServer
    \/ ConnectExited(1)
    \/ HandleTreeSelection
    \/ KeyCallTool
    \/ OnTreeNodeActivated
    \/ ActionCloseDialog
    \/ \E d \in 1..MaxDialogs : HandleInputSubmitted(d)
    \/ HandleToolCallRequested
    \/ HandleCallButton
    \/ \E w \in DOMAIN tool_workers : ToolCallStarts(w)
    \/ \E w \in DOMAIN tool_workers, how \in {"result", "error"} : ToolCallEnds(w, how)
    \/ LoadCapabilities
    \/ \E w \in DOMAIN load_workers : LoadStarts(w)
    \/ \E w \in DOMAIN load_workers, ok \in BOOLEAN : LoadStep(w, ok)
    \/ ActionPing
    \/ \E w \in DOMAIN op_workers : OpStarts(w)
    \/ \E w \in DOMAIN op_workers, how \in {"result", "error"} : OpEnds(w, how)
    \/ ActionQuit
    \/ Shutdown
    \/ SleepCancelled
    \/ \E w \in DOMAIN tool_workers : ToolCallCancelled(w)
    \/ \E w \in DOMAIN load_workers : LoadCancelled(w)
    \/ \E w \in DOMAIN op_workers : OpCancelled(w)

TuiSpec == LoggerInit /\ [][TuiNext]_vars

\* ------------------------------------------------------------------ claims
\* The session is Disconnected.
Disconnected == ~connected /\ client = None

\* Call k is made in this step.
Invoked(k) == calls[k].pc = "new" /\ calls'[k].pc # "new"

\* The awaited protocol call of call k ends in this step.
Completed(k) == calls[k].pc = "awaiting" /\ calls'[k].pc = "ended"

\* The last n entries of a log.
LastEntries(log, n) == SubSeq(log, Len(log) - n + 1, Len(log))

\* C1: a capability operation called while the session is Disconnected fails
\* with the not-connected error and leaves the log as it was.
C1_NotConnected ==
    [][\A k \in Calls :
          (Invoked(k) /\ ~connected) =>
             /\ calls'[k].pc = "ended"
             /\ calls'[k].outcome.kind = "raised"
             /\ calls'[k].outcome.error = Some(NotConnectedError)
             /\ entries' = entries]_vars

\* C1 happens: after a connection was opened and ended, with its initialize
\* entry in the log, create_message and another operation were refused.
C1_Witness ==
    /\ \E c \in ConnIds : conns[c].pc = "returned"
    /\ Len(entries) = 1
    /\ \E k \in Calls :
         /\ calls[k].op = "create_message"
         /\ calls[k].outcome = Raised(NotConnectedError)

\* C2: when the caller's block inside connect() ends, by return, exception or
\* cancellation, connected is false, the handle is dropped and server_info
\* is absent.
C2_BlockEndDisconnects ==
    [][\A c \in ConnIds :
          (conns[c].pc = "open" /\ conns'[c].pc # "open") =>
             /\ connected' = FALSE
             /\ client' = None
             /\ server_info' = None]_vars

\* C2 happens: a block that ran with server_info cached was cancelled, the
\* connection is being released and the session is Disconnected.
C2_Witness ==
    \E c \in ConnIds :
       /\ conns[c].pc = "exiting"
       /\ conns[c].error = Some(CancelledError)
       /\ conns[c].init # None
       /\ Disconnected
       /\ server_info = None

\* connect() of scope c ends with a failure in this step without its block
\* having started: the transport could not be created, the connection could
\* not be opened or the handshake failed, or the initialization result could
\* not be parsed.
FailsBeforeBlock(c) ==
    /\ conns'[c].pc = "raised"
    /\ \/ conns[c].pc \in {"unused", "entering"}
       \/ conns[c].pc = "exiting" /\ conns[c].error = Some(InitParseError)

\* No other connect() is in progress on the session.
OnlyScope(c) ==
    \A d \in ConnIds \ {c} : conns[d].pc \in {"unused", "returned", "raised"}

\* C3: a connect() that fails before the caller's block starts leaves the
\* session Disconnected: connected is false and no handle is held.
C3_FailedConnectDisconnects ==
    [][\A c \in ConnIds :
          (FailsBeforeBlock(c) /\ OnlyScope(c)) =>
             (connected' = FALSE /\ client' = None)]_vars

\* Log after is log before with exactly the entry e appended.
Appends(before, after, e) == after = Append(before, e)

\* The protocol call of call k ended by returning or by raising a failure
\* (it was not cancelled).
CallCompleted(k) ==
    /\ Completed(k)
    /\ \/ calls'[k].wire.how = "returned"
       \/ calls'[k].wire.how = "raised" /\ IsException(Get(calls'[k].wire.exc))

\* C4: an operation called while Connected appends the request entry of its
\* method before its protocol call is dispatched, and appends the response
\* entry of the same method after that call completes, before it returns or
\* raises.
C4_RequestDispatchResponse ==
    [][\A k \in Calls :
          /\ (calls[k].pc = "new" /\ calls'[k].pc = "awaiting") =>
                /\ connected
                /\ Len(entries') = Len(entries) + 1
                /\ Appends(entries, entries', entries'[Len(entries')])
                /\ entries'[Len(entries')].direction = "request"
                /\ entries'[Len(entries')].method = MethodOf(calls'[k].op)
                /\ calls'[k].request_entry = Some(entries'[Len(entries')])
          /\ CallCompleted(k) =>
                /\ Len(entries') = Len(entries) + 1
                /\ Appends(entries, entries', entries'[Len(entries')])
                /\ entries'[Len(entries')].direction = "response"
                /\ entries'[Len(entries')].method = MethodOf(calls[k].op)
                /\ calls'[k].outcome.kind \in {"returned", "raised"}]_vars

\* C4 happens: get_prompt was dispatched on an open connection and returned;
\* the log ends with its request and its response.
C4_Witness ==
    \E k \in Calls :
       /\ calls[k].pc = "ended"
       /\ calls[k].op = "get_prompt"
       /\ calls[k].wire.how = "returned"
       /\ Len(entries) >= 2
       /\ entries[Len(entries) - 1].direction = "request"
       /\ entries[Len(entries) - 1].method = "prompts/get"
       /\ entries[Len(entries)].direction = "response"
       /\ entries[Len(entries)].method = "prompts/get"

\* C5: when the protocol call of an operation other than ping fails, the
\* operation appends a response entry whose error is the failure's message
\* and raises that same failure; it returns nothing.
C5_FailureLoggedThenRaised ==
    [][\A k \in Calls :
          (/\ Completed(k)
           /\ calls[k].op # "ping"
           /\ calls'[k].wire.how = "raised"
           /\ IsException(Get(calls'[k].wire.exc))) =>
             /\ Len(entries') = Len(entries) + 1
             /\ Appends(entries, entries', entries'[Len(entries')])
             /\ entries'[Len(entries')].direction = "response"
             /\ entries'[Len(entries')].method = MethodOf(calls[k].op)
             /\ entries'[Len(entries')].error = Some(Get(calls'[k].wire.exc).msg)
             /\ calls'[k].outcome.kind = "raised"
             /\ calls'[k].outcome.error = calls'[k].wire.exc]_vars

\* C5 happens: the protocol call of call_tool failed with "boom", which was
\* logged and raised.
C5_Witness ==
    \E k \in Calls :
       /\ calls[k].pc = "ended"
       /\ calls[k].op = "call_tool"
       /\ calls[k].wire = WireRaised(Exc("McpError", "boom"))
       /\ calls[k].outcome.kind = "raised"
       /\ Len(entries) >= 1
       /\ entries[Len(entries)].method = "tools/call"
       /\ entries[Len(entries)].error = Some("boom")

\* C6: ping returns true when its protocol call returns and false when it
\* fails, never raising the failure; in the failing case the log gains a
\* response entry for "ping" with error set.
C6_PingNeverRaisesFailure ==
    [][\A k \in Calls :
          (CallCompleted(k) /\ calls[k].op = "ping") =>
             /\ calls'[k].outcome.kind = "returned"
             /\ calls'[k].wire.how = "returned" => calls'[k].outcome.value = "True"
             /\ calls'[k].wire.how = "raised" =>
                   /\ calls'[k].outcome.value = "False"
                   /\ Len(entries') = Len(entries) + 1
                   /\ Appends(entries, entries', entries'[Len(entries')])
                   /\ entries'[Len(entries')].direction = "response"
                   /\ entries'[Len(entries')].method = "ping"
                   /\ entries'[Len(entries')].error # None]_vars

\* C6 happens: the protocol call of ping failed, ping returned false and the
\* failure is in the log.
C6_Witness ==
    \E k \in Calls :
       /\ calls[k].pc = "ended"
       /\ calls[k].op = "ping"
       /\ calls[k].wire.how = "raised"
       /\ calls[k].wire.exc # Some(CancelledError)
       /\ calls[k].outcome = Returned("False")
       /\ Len(entries) >= 1
       /\ entries[Len(entries)].method = "ping"
       /\ entries[Len(entries)].error # None

\* C7: once the protocol call of an operation has ended in any way (it
\* returned, it failed, or the task was cancelled while awaiting it), the log
\* holds a response entry for the operation's method, appended after its
\* request entry.
C7_TerminatedAnswered ==
    [][\A k \in Calls :
          Completed(k) =>
             /\ Len(entries') = Len(entries) + 1
             /\ Appends(entries, entries', entries'[Len(entries')])
             /\ entries'[Len(entries')].direction = "response"
             /\ entries'[Len(entries')].method = MethodOf(calls[k].op)]_vars

\* The session passes _ensure_connected.
Connected == connected /\ client # None

\* Log after is log before with exactly a request entry and then a response
\* entry for method appended.
AppendsExchange(before, after, method) ==
    /\ Len(after) = Len(before) + 2
    /\ SubSeq(after, 1, Len(before)) = before
    /\ after[Len(before) + 1].direction = "request"
    /\ after[Len(before) + 1].method = method
    /\ after[Len(before) + 2].direction = "response"
    /\ after[Len(before) + 2].method = method

\* C8: list_roots on a connection without roots support appends a request
\* entry and a response entry whose error says roots are not supported,
\* returns an empty list and does not raise.
C8_RootsUnsupportedDegrades ==
    [][\A k \in Calls :
          (/\ Invoked(k)
           /\ calls'[k].op = "list_roots"
           /\ Connected
           /\ ~library.list_roots) =>
             /\ calls'[k].pc = "ended"
             /\ calls'[k].outcome = Returned("[]")
             /\ AppendsExchange(entries, entries', "roots/list")
             /\ entries'[Len(entries')].error = Some("Roots not supported")]_vars

\* C8 happens: list_roots was called on an open connection of a library
\* without list_roots and returned the empty list.
C8_Witness ==
    \E k \in Calls :
       /\ calls[k].op = "list_roots"
       /\ calls[k].outcome = Returned("[]")
       /\ ~library.list_roots
       /\ \E c \in ConnIds : conns[c].pc = "open"
       /\ Len(entries) >= 2
       /\ entries[Len(entries)].error = Some("Roots not supported")

\* C9: create_message on a connection without sampling support appends a
\* request entry and then a response entry with error set, fails with the
\* unsupported-capability error, and leaves the connection state as it was.
C9_SamplingUnsupportedFails ==
    [][\A k \in Calls :
          (/\ Invoked(k)
           /\ calls'[k].op = "create_message"
           /\ Connected
           /\ ~library.create_message) =>
             /\ calls'[k].pc = "ended"
             /\ calls'[k].outcome = Raised(SamplingUnsupported)
             /\ AppendsExchange(entries, entries', "sampling/createMessage")
             /\ entries'[Len(entries')].error # None
             /\ UNCHANGED <<connected, client, server_info>>]_vars

\* The step in which connect() of scope c reaches its yield: the connect
\* succeeded and the caller's block starts.
BlockStarts(c) == conns[c].pc = "entering" /\ conns'[c].pc = "open"

\* In this step the ServerInfo parsed from init is cached and exactly one
\* response entry for "initialize", without duration, is appended.
CachesAndLogs(init) ==
    /\ server_info' # None
    /\ Get(server_info').name = Get(init.serverInfo)
    /\ Get(server_info').capabilities.tools = (init.tools # None)
    /\ Len(entries') = Len(entries) + 1
    /\ Appends(entries, entries', entries'[Len(entries')])
    /\ entries'[Len(entries')].direction = "response"
    /\ entries'[Len(entries')].method = "initialize"
    /\ entries'[Len(entries')].duration_ms = None
    /\ entries'[Len(entries')].error = None

\* C10 as stated: every successful connect() caches the ServerInfo parsed
\* from the initialization result and appends exactly one response entry for
\* "initialize" without duration before the block starts.
C10_EveryConnectCachesAndLogs ==
    [][\A c \in ConnIds :
          BlockStarts(c) =>
             /\ conns'[c].init # None
             /\ CachesAndLogs(Get(conns'[c].init))]_vars

\* C10, amended: a successful connect() whose Client holds an initialization
\* result caches the ServerInfo parsed from it and appends exactly one
\* response entry for "initialize" without duration, before the block starts
\* and before any operation is issued on that connection; one whose Client
\* holds none caches nothing and appends nothing.
C10_ConnectWithResultCachesAndLogs ==
    [][\A c \in ConnIds :
          BlockStarts(c) =>
             /\ \A k \in Calls : calls[k].client # Some(c)
             /\ IF conns'[c].init # None
                THEN CachesAndLogs(Get(conns'[c].init))
                ELSE entries' = entries /\ server_info' = server_info]_vars

\* C10 happens: a second connect() succeeded after the first connection
\* ended; each appended one initialize entry and the ServerInfo cached is the
\* second handshake's.
C10_Witness ==
    /\ conns[1].pc = "returned"
    /\ conns[2].pc = "open"
    /\ conns[2].init = Some([serverInfo |-> Some("beta"), tools |-> None])
    /\ server_info = Some([name |-> "beta", capabilities |-> [tools |-> FALSE]])
    /\ Len(entries) = 2
    /\ \A i \in 1..2 : entries[i].method = "initialize" /\ entries[i].duration_ms = None

\* A response entry is appended in this step.
ResponseLogged ==
    /\ Len(entries') = Len(entries) + 1
    /\ entries'[Len(entries')].direction = "response"

\* C11: log_response given the entry an earlier log_request returned appends
\* an entry whose duration is at least 0 milliseconds, whatever the wall
\* clock did in between; log_response given no entry appends one whose
\* duration is null.
C11_DurationNonNegative ==
    [][(ResponseLogged /\ arg'.fn = "log_response") =>
          LET e == entries'[Len(entries')]
          IN  IF arg'.request_entry # None
              THEN e.duration_ms # None /\ Get(e.duration_ms) >= 0
              ELSE e.duration_ms = None]_vars

\* C15: the log is append-only: every action other than clear() leaves the
\* entries already logged as they are, in the same order, whatever the
\* caller does to the params or results it passed.
C15_AppendOnly ==
    [][arg'.fn # "clear" =>
          /\ Len(entries') >= Len(entries)
          /\ SubSeq(entries', 1, Len(entries)) = entries]_vars

\* A direct call of fn has returned or raised.
Called(fn) == out # None /\ arg.fn = fn

\* The last n entries of a log, all of them when it holds fewer.
LastOf(log, n) ==
    IF n >= Len(log) THEN log ELSE SubSeq(log, Len(log) - n + 1, Len(log))

\* C12: for a log of T entries and a limit N >= 0, get_entries(limit=N)
\* returns exactly the last N entries in their original order when N <= T and
\* all T entries when N >= T.
C12_LimitReturnsLast ==
    (/\ Called("get_entries")
     /\ arg.direction = None /\ arg.method = None /\ arg.limit # None) =>
        /\ Get(out).raised = None
        /\ Get(out).value = LastOf(entries, Get(arg.limit))

\* The entries of a log that have the given direction and the given method,
\* a filter that is not given (None) letting every entry through.
Matching(log, direction, method) ==
    LET Matches(e) == /\ direction = None \/ e.direction = Get(direction)
                      /\ method = None \/ e.method = Get(method)
    IN  SelectSeq(log, Matches)

\* C13: get_entries(direction, method, limit), given a direction, a method
\* name or both, returns exactly the entries that have the given direction
\* and the given method, in their original order, and of these the last
\* limit when a limit is given.
C13_FilterThenLimit ==
    (/\ Called("get_entries")
     /\ arg.direction # None \/ arg.method # None
     /\ arg.method # Some("")) =>
        /\ Get(out).raised = None
        /\ Get(out).value =
              IF arg.limit = None
              THEN Matching(entries, arg.direction, arg.method)
              ELSE LastOf(Matching(entries, arg.direction, arg.method),
                          Get(arg.limit))

\* C14: export_json() succeeds and, parsed back, yields as many elements as
\* the log has entries, with the same method and direction at each position.
C14_ExportRoundTrip ==
    Called("export_json") =>
        /\ Get(out).raised = None
        /\ Len(Get(out).value) = Len(entries)
        /\ \A i \in 1..Len(entries) :
              /\ Get(out).value[i].method = entries[i].method
              /\ Get(out).value[i].direction = entries[i].direction

\* C17: the ToolCallResult of call_tool has is_error true when the wire
\* result exposes is_error = true, true when it exposes isError = true, and
\* false when it exposes neither spelling set: each absent, null or false.
C17_IsErrorNormalized ==
    Called("call_tool") =>
        /\ Get(out).raised = None
        /\ Get(out).value.is_error =
              (arg.result.is_error = "true" \/ arg.result.isError = "true")

\* The arguments the server process is started with.
ProcessArgs(transport) ==
    IF transport.args = None THEN <<>> ELSE Get(transport.args)

\* C18: for stdio and uv-managed transports, the process arguments of the
\* transport created are the declared args followed by extra_args, in order,
\* nothing removed, deduplicated or reordered.
C18_ExtraArgsAppended ==
    (Called("create_transport") /\ arg.tt \in {"stdio", "uv_installed", "uv_local"}) =>
        /\ Get(out).raised = None
        /\ ProcessArgs(Get(out).value) = arg.args \o arg.extra_args

\* An extra_args token as a query parameter: split once at the first '=',
\* a bare token becoming token=true.
Folded(token) ==
    CASE token = "env=prod" -> <<"env", "prod">>
      [] token = "debug" -> <<"debug", "true">>
      [] token = "a=b=c" -> <<"a", "b=c">>

\* The query parameters of a URL.
QueryParams(url) == {url.query[i] : i \in 1..Len(url.query)}

\* C19: for SSE and HTTP transports, every extra_args token is in the query
\* string of the URL used, folded, and every query parameter of the declared
\* URL is still there.
C19_ExtraArgsFolded ==
    (Called("create_transport") /\ arg.tt \in {"sse", "http"}) =>
        /\ Get(out).raised = None
        /\ Get(out).value.url # None
        /\ \A i \in 1..Len(arg.extra_args) :
              Folded(arg.extra_args[i]) \in QueryParams(Get(Get(out).value.url))
        /\ QueryParams(arg.url) \subseteq QueryParams(Get(Get(out).value.url))

\* C20: with empty extra_args, the URL used for an SSE or HTTP connection is
\* the declared URL, unchanged.
C20_EmptyExtraArgsKeepUrl ==
    (/\ Called("create_transport")
     /\ arg.tt \in {"sse", "http"}
     /\ arg.extra_args = <<>>) =>
        /\ Get(out).raised = None
        /\ Get(out).value.url = Some(arg.url)

\* C20 happens: an HTTP transport was created for a declared URL that has a
\* query string, with no extra_args, and uses that URL.
C20_Witness ==
    /\ Called("create_transport")
    /\ arg.tt = "http"
    /\ arg.extra_args = <<>>
    /\ arg.url.query = << <<"token", "abc">> >>
    /\ Get(out).value.url = Some(arg.url)

\* The protocol call of call k was dispatched: the operation logged its
\* request and awaited the connection.
Dispatched(k) == calls[k].pc = "awaiting" \/ calls[k].wire.how # "none"

\* The protocol call of call k has ended by returning or by failing.
Answered(k) ==
    /\ calls[k].pc = "ended"
    /\ \/ calls[k].wire.how = "returned"
       \/ calls[k].wire.how = "raised" /\ IsException(Get(calls[k].wire.exc))

\* The entries of a direction and a method among the first n of a log.
CountIn(log, n, direction, method) ==
    Cardinality({i \in 1..n : log[i].direction = direction /\ log[i].method = method})

\* C16: with capability operations in flight together on a connected
\* session, under every interleaving no entry is lost or duplicated (the
\* operations dispatched for a method leave as many request entries, those
\* of them whose call returned or failed as many response entries) and no
\* response entry comes before the request entry of its operation.
C16_ConcurrentAppends ==
    nclears = 0 =>
       \A j \in Calls :
          calls[j].pc # "new" =>
             LET m == MethodOf(calls[j].op)
                 made == {k \in Calls : calls[k].pc # "new" /\ calls[k].op = calls[j].op}
             IN  (\A k \in made : Dispatched(k)) =>
                    /\ CountIn(entries, Len(entries), "request", m) = Cardinality(made)
                    /\ CountIn(entries, Len(entries), "response", m) =
                          Cardinality({k \in made : Answered(k)})
                    /\ \A n \in 1..Len(entries) :
                          (entries[n].direction = "response" /\ entries[n].method = m) =>
                             CountIn(entries, n, "response", m)
                                <= CountIn(entries, n, "request", m)

\* C16 happens: two operations were in flight together and the one dispatched
\* second was answered first; the log holds the two requests and then the
\* two responses in the order the answers came.
C16_Witness ==
    /\ nclears = 0
    /\ Answered(1) /\ Answered(2)
    /\ calls[1].op = "call_tool" /\ calls[2].op = "list_tools"
    /\ Len(entries) = 5
    /\ entries[2].direction = "request" /\ entries[2].method = "tools/call"
    /\ entries[3].direction = "request" /\ entries[3].method = "tools/list"
    /\ entries[4].direction = "response" /\ entries[4].method = "tools/list"
    /\ entries[5].direction = "response" /\ entries[5].method = "tools/call"

\* connect() is called for scope c in this step.
ConnectCalled(c) == conns[c].pc = "unused" /\ conns'[c].pc # "unused"

\* C21: connect() on a configuration whose sub-config for the declared
\* transport type is absent fails with the configuration error before any
\* connection attempt; no entry is appended and the session's connection
\* state stays as it was, Disconnected.
C21_MissingSubConfigFails ==
    [][\A c \in ConnIds :
          (ConnectCalled(c) /\ SubConfigOf(config.transport_type) \notin config.populated) =>
             /\ conns'[c].pc = "raised"
             /\ conns'[c].error = Some(ConfigurationError)
             /\ entries' = entries
             /\ UNCHANGED <<connected, client, server_info>>
             /\ Disconnected']_vars

\* C21 happens: connect() on a configuration without a stdio block has
\* failed with the configuration error, the log is empty and the session is
\* Disconnected.
C21_Witness ==
    /\ config.populated = {}
    /\ conns[1].pc = "raised"
    /\ conns[1].error = Some(ConfigurationError)
    /\ entries = <<>>
    /\ Disconnected

\* C22: every configuration produced by for_stdio, for_sse, for_http,
\* for_uv_installed or for_uv_local has exactly one sub-config populated,
\* the one matching its transport type, and an extra_args sequence holding
\* what the caller supplied (empty when nothing was supplied).
C22_ConstructorsPopulateOne ==
    arg.fn = "create_transport" =>
        /\ config.transport_type = arg.tt
        /\ config.populated = {SubConfigOf(arg.tt)}
        /\ "extra_args" \in DOMAIN config
        /\ config.extra_args = arg.extra_args

\* C26: for SSE and HTTP, what _create_transport hands to the connection
\* carries the configured URL, the configured headers and the configured
\* timeout.
C26_UrlHeadersTimeoutKept ==
    (Called("create_transport") /\ arg.tt \in {"sse", "http"}
        /\ Get(out).raised = None) =>
        /\ Get(out).value.url = Some(config.url)
        /\ Get(out).value.headers = Some(config.headers)
        /\ Get(out).value.timeout = Some(config.timeout)

\* C23: log_response stores the structured dump of a result that offers
\* one, a plain mapping as it is, and for every other result (numbers,
\* lists, None and arbitrary objects alike) the one-key mapping holding the
\* result's string form.
C23_ResultNormalized ==
    Called("log_response") =>
        LET data == Get(out).value.data
            kind == arg.result.kind
        IN  /\ data.body = arg.result.body
            /\ data.form = CASE kind = "model" -> "model_dump"
                             [] kind = "mapping" -> "same"
                             [] OTHER -> "str"

\* The entries a step appended, when it only appended.
NewEntries == SubSeq(entries', Len(entries) + 1, Len(entries'))

\* How many of the entries a step appended have the given direction.
NewCount(direction) ==
    Cardinality({i \in DOMAIN NewEntries : NewEntries[i].direction = direction})

\* C24: each invocation of a capability operation while Connected appends
\* exactly one request entry and at most one response entry: the request
\* when it is called, no response while it awaits the protocol call, at
\* most one response when it ends, and nothing once it has ended.
C24_OneRequestAtMostOneResponse ==
    [][\A k \in Calls :
          /\ (Invoked(k) /\ Connected) =>
                /\ SubSeq(entries', 1, Len(entries)) = entries
                /\ NewCount("request") = 1
                /\ NewCount("response") =
                      (IF calls'[k].pc = "ended" /\ calls'[k].outcome # Raised(JsonTypeError)
                       THEN 1 ELSE 0)
          /\ Completed(k) =>
                /\ SubSeq(entries', 1, Len(entries)) = entries
                /\ NewCount("request") = 0
                /\ NewCount("response") <= 1
          /\ calls[k].pc = "ended" => calls'[k] = calls[k]]_vars

\* C24 happens: on a connected session a call was logged, awaited its
\* protocol call and ended, and the log holds the handshake, one request and
\* one response for it.
C24_Witness ==
    /\ calls[1].pc = "ended"
    /\ calls[1].op = "call_tool"
    /\ calls[1].wire = WireReturned
    /\ Len(entries) = 3
    /\ entries[2].direction = "request" /\ entries[2].method = "tools/call"
    /\ entries[3].direction = "response" /\ entries[3].method = "tools/call"
    /\ entries[3].error = None

\* C25: log_request never fails because of its trace output, whatever the
\* params: an operation called while Connected has its request appended and
\* does not end with the error of encoding the params as JSON.
C25_LogRequestNeverFails ==
    [][\A k \in Calls :
          (Invoked(k) /\ Connected) =>
             /\ Len(entries') > Len(entries)
             /\ entries'[Len(entries) + 1].direction = "request"
             /\ calls'[k].outcome # Raised(JsonTypeError)]_vars

\* C27: ToolCallResult.text is the text of the first content item, in
\* content order, that bears text, and is absent when no item bears text or
\* the content is empty.
C27_FirstText ==
    Called("call_tool") =>
        LET result == Get(out).value
            bearing == {i \in DOMAIN result.content : "text" \in DOMAIN result.content[i]}
        IN  /\ (arg.result.content # None => result.content = Get(arg.result.content))
            /\ (arg.result.content = None => result.content = <<>>)
            /\ IF bearing = {} THEN result.text = None
               ELSE \E i \in bearing :
                       /\ \A j \in bearing : i <= j
                       /\ result.text = Some(result.content[i].text)

\* C27 happens: a result whose content is an image followed by a text gave
\* the text of the second item.
C27_Witness ==
    /\ Called("call_tool")
    /\ Get(out).value.content = <<ImageContent(TRUE), TextContent("b", TRUE)>>
    /\ Get(out).value.text = Some("b")

\* C28: a session holds at most one live connection at a time: while it is
\* Connected through a connection whose block has not ended, connect() does
\* not open a second connection, the handle is not replaced and the session
\* keeps reporting Connected until that block ends.
C28_OneLiveConnection ==
    [][\A c \in ConnIds :
          (Connected /\ client = Some(c) /\ conns[c].pc = "open") =>
             /\ \A d \in ConnIds : ConnectCalled(d) => conns'[d].pc # "entering"
             /\ conns'[c].pc = "open" => (client' = client /\ connected')]_vars

\* The ServerInfo parsed from the handshake of scope c is the one the
\* session holds (none when the handshake left no result).
HoldsInfoOf(c, info) ==
    IF conns[c].init = None THEN info = None
    ELSE /\ info # None
         /\ info = ServerInfo(Get(conns[c].init)).info

\* C29: a session is reusable.  After an earlier connection has ended,
\* normally or by failure, whenever the block of a new connect() is running
\* the session is Connected with the server_info parsed from that
\* connection's handshake, and an operation called meanwhile does not fail
\* for want of a connection and, when it reaches its protocol call, makes it
\* on the Client of the running block, never on an earlier one.
C29_Reusable ==
    [][\A c \in ConnIds :
          /\ conns'[c].pc = "open" =>
                /\ connected'
                /\ HoldsInfoOf(c, server_info)'
          /\ conns[c].pc = "open" =>
                \A k \in Calls :
                   Invoked(k) =>
                      /\ calls'[k].outcome # Raised(NotConnectedError)
                      /\ calls'[k].pc = "awaiting" => calls'[k].client = Some(c)
                      /\ \A d \in ConnIds \ {c} : calls'[k].client # Some(d)]_vars

\* C29 happens: the earlier connection of the session, whose handshake named
\* the server alpha, has ended normally; a new connect() succeeded with a
\* handshake naming the server beta, the session holds beta's ServerInfo, and
\* a ping called in the new block is awaiting its answer on the new Client.
C29_Witness ==
    /\ conns[0].pc = "returned"
    /\ Len(entries) > 0
    /\ entries[1].data.body = "alpha"
    /\ conns[1].pc = "open"
    /\ conns[1].init = Some([serverInfo |-> Some("beta"), tools |-> None])
    /\ server_info = Some([name |-> "beta", capabilities |-> [tools |-> FALSE]])
    /\ Connected
    /\ calls[1].pc = "awaiting"
    /\ calls[1].op = "ping"
    /\ calls[1].client = Some(1)

\* The connection of scope c ends in this step: its block ends or its
\* release completes.
ConnectionEnds(c) ==
    conns[c].pc \in {"open", "exiting"} /\ conns'[c].pc # conns[c].pc

\* The operations logged were called with arguments JSON can encode.
PlainRequests(log) ==
    \A i \in DOMAIN log : log[i].direction = "request" => log[i].data.json

\* C30: ending a connection does not change the log: the step leaves the
\* entries as they were, once the session is Disconnected get_log_entries()
\* returns all of them and export_logs() returns their JSON text (stated
\* for operations called with arguments JSON can encode), and whatever is
\* logged later, short of clear_logs, is appended after them.
C30_DisconnectKeepsLog ==
    [][/\ \A c \in ConnIds :
             ConnectionEnds(c) =>
                /\ entries' = entries
                /\ (Disconnected' /\ PlainRequests(entries)) =>
                      /\ GetEntries(entries', None, None, None) = entries
                      /\ ExportJson(entries').raised = None
                      /\ Len(JsonLoads(Get(ExportJson(entries').text))) = Len(entries)
       /\ nclears' = nclears =>
             /\ Len(entries') >= Len(entries)
             /\ SubSeq(entries', 1, Len(entries)) = entries]_vars

\* C31: two sessions share no mutable state: the construction of another
\* session, and every operation on another session, leaves a session's log
\* entries, its connection state and the level and handlers (console and
\* log file) through which its trace lines are written as they were.
C31_SessionsIsolated ==
    [][\A s \in DOMAIN sessions :
          arg'.session # s =>
             /\ sessions'[s] = sessions[s]
             /\ loggers'[sessions[s].name] = loggers[sessions[s].name]]_vars

\* C32: with logging.enabled false in the configuration a capability
\* operation records no request and no response entry; with it true the
\* operation records its request when it is called.
C32_DisabledRecordsNothing ==
    [][\A k \in Calls :
          /\ Invoked(k) =>
                IF config.enabled THEN Len(entries') > Len(entries)
                ELSE entries' = entries
          /\ Completed(k) => (~config.enabled => entries' = entries)]_vars

\* The connection method the options select: the one option that is given.
Selected(o) ==
    CASE o.stdio # None -> "stdio"
      [] o.sse # None -> "sse"
      [] o.http # None -> "http"
      [] o.uv # None -> "uv_installed"
      [] OTHER -> "uv_local"

\* C33: for every combination of connection options that
\* validate_connection_options accepts, build_config returns a configuration
\* whose transport type is the selected method and whose matching
\* sub-config is populated; it raises nothing.
C33_AcceptedOptionsBuild ==
    (Called("build_config") /\ ValidateConnectionOptions(arg) = None) =>
        /\ Get(out).raised = None
        /\ Get(out).value.transport_type = Selected(arg)
        /\ SubConfigOf(Selected(arg)) \in Get(out).value.populated

\* C34: wherever a caller can observe the session, connected is true exactly
\* when a connection handle is held, and server_info is present only while
\* connected is true.
C34_ConnectedIffHandle ==
    /\ connected <=> client # None
    /\ server_info # None => connected

\* C34 happens: a connection that cached a ServerInfo has ended, and the
\* session holds no handle, is not connected and has no ServerInfo.
C34_Witness ==
    /\ conns[1].pc = "returned"
    /\ Len(entries) >= 1
    /\ entries[1].method = "initialize"
    /\ ~connected
    /\ client = None
    /\ server_info = None

\* C35: a sequence returned by get_entries is a snapshot whatever filters or
\* limit were given: later log_request, log_response, log_notification and
\* clear calls do not change its items, and adding to it or removing from
\* it does not change the logger's own entries.
C35_ReturnedListIsSnapshot ==
    [][(held # None /\ held' # None) =>
          /\ arg'.fn \in {"log_request", "log_response", "log_notification", "clear"} =>
                ListOf(Get(held'), entries') = ListOf(Get(held), entries)
          /\ arg'.fn \in {"append", "pop"} => entries' = entries]_vars

\* Each response entry of the log that has a duration is preceded by a
\* request entry with the same method.
Paired(log) ==
    \A i \in DOMAIN log :
       (log[i].direction = "response" /\ log[i].duration_ms # None) =>
          \E j \in 1..(i - 1) :
             log[j].direction = "request" /\ log[j].method = log[i].method

\* The request entry of the awaiting call k is still in the log.
RequestKept(k) ==
    \E i \in DOMAIN entries : entries[i] = Get(calls[k].request_entry)

\* C36 as stated: in every reachable log each response entry that has a
\* duration is preceded by a request entry with the same method, under any
\* interleaving of capability operations with clear() calls.
C36_ResponsesPaired == Paired(entries)

\* C36, amended: the same, provided clear() is not called between the
\* logging of a request and of its response: an operation that is called,
\* and one that ends while its request entry is still in the log, leave
\* every response entry that has a duration preceded by a request entry
\* with the same method, if the log was so before.
C36_ResponsesPairedUnlessCleared ==
    [][\A k \in Calls :
          /\ (Invoked(k) /\ Paired(entries)) => Paired(entries')
          /\ (Completed(k) /\ RequestKept(k) /\ Paired(entries)) => Paired(entries')]_vars

\* C36 happens: after a clear() an operation was called and answered, and
\* the log holds its request followed by its response with a duration.
C36_Witness ==
    /\ nclears = 1
    /\ calls[1].pc = "ended"
    /\ calls[1].wire = WireReturned
    /\ Len(entries) = 2
    /\ entries[1].direction = "request"
    /\ entries[2].direction = "response"
    /\ entries[2].method = entries[1].method
    /\ entries[2].duration_ms # None

\* Worker w of execute_tool_call finishes in this step.
ToolCallFinishes(w) ==
    tool_workers[w].pc # "done" /\ tool_workers'[w].pc = "done"

\* C37: when a tool call finishes, with a result or with an error, the
\* dialog from which it was submitted is closed and no other dialog is
\* closed, also when the form was submitted more than once or a new dialog
\* was opened while the call was in flight.
C37_ClosesItsOwnDialog ==
    [][\A w \in DOMAIN tool_workers :
          ToolCallFinishes(w) =>
             /\ tool_workers[w].dialog \notin mounted'
             /\ mounted \ {tool_workers[w].dialog} \subseteq mounted']_vars

\* Every load_capabilities worker that started has completed.
LoadsCompleted ==
    /\ load_workers # <<>>
    /\ \A w \in DOMAIN load_workers : load_workers[w].pc = "done"

\* What the groups labelled label must list.
Listed(label) ==
    IF label = "Tools" THEN Server.tools
    ELSE IF label = "Resources" THEN Server.resources
    ELSE Server.prompts

\* C38: once every started capability refresh has completed, the tree holds
\* at most one Tools group, one Resources group and one Prompts group, each
\* listing the server's items once, also when refreshes overlap.
C38_OneGroupEach ==
    LoadsCompleted =>
       /\ \A i, j \in DOMAIN tree : tree[i].label = tree[j].label => i = j
       /\ \A i \in DOMAIN tree : tree[i].items = Listed(tree[i].label)

====
